---- MODULE Spec2Model ----
(***************************************************************************)
(* Verification model of ImagenesPDF (src/imagenespdf).                    *)
(*                                                                         *)
(* vendor_detector.py: VendorSignatureManager (signature store),           *)
(* TextExtractor, DetectionResult and VendorDetector.                      *)
(*                                                                         *)
(* Real numbers (scores, confidences, weights) are exact rationals with    *)
(* the common denominator Unit; IEEE rounding of the Python floats is not  *)
(* modelled.  A regular expression is identified by its source text, and a *)
(* document text by the snippets printed on its pages: SnippetMatches      *)
(* tabulates, for each snippet, the patterns for which                     *)
(* regex.findall(snippet) is non-empty under re.IGNORECASE | re.MULTILINE. *)
(***************************************************************************)
EXTENDS Integers, Sequences, FiniteSets, TLC

VARIABLES
    config,           \* the configuration source read by _load_signatures
    signatures,       \* VendorSignatureManager.signatures, in dict order
    loaded,           \* TRUE once _load_signatures has run
    detection_cache,  \* VendorDetector._detection_cache
    last,             \* the last call made on the detector and its outcome
    sig_call,         \* arguments of a direct _analyze_vendor_signatures call
    sig_ret,          \* what that call returned
    made,             \* arguments and outcome of a DetectionResult(...) call
    max_future_year,  \* YearProcessor.MAX_FUTURE_YEAR, fixed at import
    year_cache,       \* YearProcessor._cache
    year_input,       \* the arguments the year processor is called with
    year_last,        \* the last call made on the year processor
    ingest_cache,     \* PDFIngestor._cache
    ingest_last       \* the last call made on the ingestor and its outcome

detector_vars == <<config, signatures, loaded, detection_cache, last, sig_call,
                   sig_ret, made>>

year_vars == <<max_future_year, year_cache, year_input, year_last>>

ingest_vars == <<ingest_cache, ingest_last>>

vars == <<detector_vars, year_vars, ingest_vars>>

-----------------------------------------------------------------------------
(* Bounds *)

\* longest required / optional / exclusion list of a generated signature
MaxPatterns == 2
\* most vendor entries in a generated configuration
MaxVendors == 3
\* the most exclusion patterns of a generated signature
MaxExclusions == 4
\* largest file size
MaxSize == 2
\* latest modification time of a file, in ticks
MaxTicks == 2
\* ticks to the second: the tolerance on modification times is 1.0 second
TicksPerSecond == 2

-----------------------------------------------------------------------------
(* Numbers *)

\* 1.0; every k in 1..10 divides 3 * Unit / 1000, so all scores are integers
Unit == 2520 * 1000

Min(a, b) == IF a <= b THEN a ELSE b
Max(a, b) == IF a >= b THEN a ELSE b

-----------------------------------------------------------------------------
(* Enumerations *)

VendorType == {"depo", "yuto", "hushan", "generic", "unknown"}

ConfidenceLevel == {"very_high", "high", "medium", "low", "very_low"}

PDFStatus == {"valid", "corrupted", "encrypted", "unsupported", "not_found",
              "permission_denied"}

-----------------------------------------------------------------------------
(* DetectionSignature and the built-in default set *)

\* DetectionSignature(required_patterns, optional_patterns,
\* exclusion_patterns, weight); the weight is in tenths
DetectionSignature(req, opt, exc, w) ==
    [required_patterns |-> req, optional_patterns |-> opt,
     exclusion_patterns |-> exc, weight |-> w]

depo_signatures ==
    << DetectionSignature(
         << "DEPO", "[A-J]\\d{2}[-\\s]\\d{4}[-\\s][A-Z]{2,3}\\d*" >>,
         << "Taiwan", "Made\\s+in\\s+Taiwan",
            "OEM\\s*:?\\s*\\d{3}[-\\s]\\d{5}[-\\s][A-Z]{2}\\d*",
            "ELEC\\s*=\\s*YES", "MOTOR\\s*=\\s*YES", "PCS\\s*=\\s*\\d+",
            "CFT\\s*=\\s*\\d+\\.?\\d*" >>,
         << "YUTO", "HUSHAN", "Made\\s+in\\s+China" >>,
         15) >>

yuto_signatures ==
    << DetectionSignature(
         << "YUTO", "[LR]HD?\\s+(?:LED|LAMP|LIGHT)" >>,
         << "China", "Made\\s+in\\s+China", "LED\\s+(?:DRL|Puddle|Heat)",
            "USA\\s+type", "Non[-\\s]US", "PCS\\s*:?\\s*\\d+",
            "CFT\\s*:?\\s*\\d+\\.?\\d*", "N\\.W\\.\\s*:?\\s*\\d+\\.?\\d*\\s*KG",
            "G\\.W\\.\\s*:?\\s*\\d+\\.?\\d*\\s*KG" >>,
         << "DEPO", "HUSHAN", "Taiwan" >>,
         13) >>

hushan_signatures ==
    << DetectionSignature(
         << "HUSHAN", "(?:Black|Chrome|Clear)\\s+(?:Housing|Finish|Style)" >>,
         << "China", "with\\s+keyhole", "smart\\s+key\\s+sensor", "heated",
            "mirror\\s+glass", "turn\\s+signal", "PCS\\s*=\\s*\\d+",
            "N\\.W\\.\\s*=\\s*\\d+\\.?\\d*\\s*KG" >>,
         << "DEPO", "YUTO", "Taiwan" >>,
         12) >>

generic_signatures ==
    << DetectionSignature(
         << "(?:OEM|OE)\\s*:?\\s*[A-Z0-9\\-]+",
            "(?:Part|Model)\\s*:?\\s*[A-Z0-9\\-]+" >>,
         << "Automotive", "Auto\\s+Parts", "Compatible\\s+with",
            "Fits\\s+\\d{4}[-\\s]\\d{4}", "Year\\s*:?\\s*\\d{4}" >>,
         << >>,
         5) >>

\* the dict built by _load_default_signatures, in insertion order
DefaultSignatures ==
    << [vendor |-> "depo",    sigs |-> depo_signatures],
       [vendor |-> "yuto",    sigs |-> yuto_signatures],
       [vendor |-> "hushan",  sigs |-> hushan_signatures],
       [vendor |-> "generic", sigs |-> generic_signatures] >>

-----------------------------------------------------------------------------
(* Document text and pattern matching *)

\* the text of one page: blank, or one of these lines
Snippets == {"", "DEPO A12-3456-AB", "Made in Taiwan", "YUTO LHD LED",
             "Made in China", "HUSHAN Black Housing",
             "OEM: 123-45678-AB Part: X1", "ACME Automotive"}

\* the patterns with at least one match in a snippet
SnippetMatches(s) ==
    CASE s = "DEPO A12-3456-AB" ->
           {"DEPO", "[A-J]\\d{2}[-\\s]\\d{4}[-\\s][A-Z]{2,3}\\d*"}
      [] s = "Made in Taiwan" -> {"Taiwan", "Made\\s+in\\s+Taiwan"}
      [] s = "YUTO LHD LED" -> {"YUTO", "[LR]HD?\\s+(?:LED|LAMP|LIGHT)"}
      [] s = "Made in China" -> {"China", "Made\\s+in\\s+China"}
      [] s = "HUSHAN Black Housing" ->
           {"HUSHAN", "(?:Black|Chrome|Clear)\\s+(?:Housing|Finish|Style)"}
      [] s = "OEM: 123-45678-AB Part: X1" ->
           {"(?:OEM|OE)\\s*:?\\s*[A-Z0-9\\-]+",
            "(?:Part|Model)\\s*:?\\s*[A-Z0-9\\-]+",
            "OEM\\s*:?\\s*\\d{3}[-\\s]\\d{5}[-\\s][A-Z]{2}\\d*"}
      [] s = "ACME Automotive" -> {"ACME", "Automotive"}
      [] OTHER -> {}

\* full_text = "\n".join(page_texts.values()): kept as the sequence of the
\* page texts; no pattern of the model matches across a page break
FullText(page_texts) == page_texts

\* bool(regex.findall(full_text))
Matches(pattern, full_text) ==
    \E i \in 1..Len(full_text) : pattern \in SnippetMatches(full_text[i])

\* how many regexes of a compiled list have at least one match
CountMatches(patterns, full_text) ==
    Cardinality({i \in 1..Len(patterns) : Matches(patterns[i], full_text)})

-----------------------------------------------------------------------------
(* VendorDetector._analyze_vendor_signatures *)

\* score base por cumplir requisitos: 0.6
BaseScore == (6 * Unit) \div 10

\* variant: a signature passes as soon as one required pattern matches
QualifiesOnAnyRequired(sig, full_text) ==
    \/ Len(sig.required_patterns) = 0
    \/ CountMatches(sig.required_patterns, full_text) > 0

\* required_matches < len(signature._required_regex) is the skip test
Qualifies(sig, full_text) ==
    ~ (CountMatches(sig.required_patterns, full_text)
         < Len(sig.required_patterns))

\* variant: 0.3 per matching optional pattern, not divided by their number
OptionalBonusPerMatch(sig, full_text) ==
    ((3 * Unit) \div 10) * CountMatches(sig.optional_patterns, full_text)

\* optional_ratio * 0.3, added only when the signature has optional patterns
OptionalBonus(sig, full_text) ==
    IF Len(sig.optional_patterns) > 0
    THEN (((3 * Unit) \div 10)
            * CountMatches(sig.optional_patterns, full_text))
         \div Len(sig.optional_patterns)
    ELSE 0

\* variant: the factor 1.0 - exclusions_found * 0.3 with no floor
ExclusionPenaltyUnfloored(score, exclusions_found) ==
    IF exclusions_found > 0
    THEN (score * (10 - 3 * exclusions_found)) \div 10
    ELSE score

\* sig_score *= max(0.1, 1.0 - exclusions_found * 0.3) when exclusions_found > 0
ExclusionPenalty(score, exclusions_found) ==
    IF exclusions_found > 0
    THEN (score * Max(1, 10 - 3 * exclusions_found)) \div 10
    ELSE score

\* sig_score *= signature.weight (weight in tenths)
ApplyWeight(score, weight) == (score * weight) \div 10

\* sig_score of one signature that passed the required test
SigScore(sig, full_text) ==
    ApplyWeight(
        ExclusionPenalty(BaseScore + OptionalBonus(sig, full_text),
                         CountMatches(sig.exclusion_patterns, full_text)),
        sig.weight)

\* a signature is counted when it qualifies and its sig_score > 0
Counted(sig, full_text) ==
    Qualifies(sig, full_text) /\ SigScore(sig, full_text) > 0

RECURSIVE TotalScore(_, _, _)
\* total_score accumulated over signatures[1..n]
TotalScore(signatures_, full_text, n) ==
    IF n = 0 THEN 0
    ELSE TotalScore(signatures_, full_text, n - 1)
         + (IF Counted(signatures_[n], full_text)
            THEN SigScore(signatures_[n], full_text) ELSE 0)

RECURSIVE MatchedSignatures(_, _, _)
\* matched_signatures: the zero-based index i of every "signature_{i}" counted
MatchedSignatures(signatures_, full_text, n) ==
    IF n = 0 THEN << >>
    ELSE IF Counted(signatures_[n], full_text)
         THEN Append(MatchedSignatures(signatures_, full_text, n - 1), n - 1)
         ELSE MatchedSignatures(signatures_, full_text, n - 1)

\* variant: the total capped at 1.0 before it is returned
AnalyzeVendorSignaturesCapped(full_text, signatures_) ==
    [total_score |->
         Min(TotalScore(signatures_, full_text, Len(signatures_)), Unit),
     matched_signatures |->
         MatchedSignatures(signatures_, full_text, Len(signatures_)),
     total_signatures |-> Len(signatures_)]

\* the (total_score, analysis) pair returned
AnalyzeVendorSignatures(full_text, signatures_) ==
    [total_score |-> TotalScore(signatures_, full_text, Len(signatures_)),
     matched_signatures |->
         MatchedSignatures(signatures_, full_text, Len(signatures_)),
     total_signatures |-> Len(signatures_)]

-----------------------------------------------------------------------------
(* Inputs *)

\* documents as the page texts a backend returns for them
Documents ==
    { << >>,
      << "" >>,
      << "DEPO A12-3456-AB" >>,
      << "Made in Taiwan" >>,
      << "DEPO A12-3456-AB", "Made in Taiwan" >>,
      << "DEPO A12-3456-AB", "Made in China" >>,
      << "YUTO LHD LED", "Made in China" >>,
      << "DEPO A12-3456-AB", "YUTO LHD LED" >>,
      << "DEPO A12-3456-AB", "YUTO LHD LED", "HUSHAN Black Housing",
         "Made in China" >>,
      << "HUSHAN Black Housing" >>,
      << "OEM: 123-45678-AB Part: X1" >>,
      << "ACME Automotive", "" >>,
      << "Made in Taiwan", "DEPO A12-3456-AB", "Made in Taiwan" >> }

\* n copies of x
Rep(x, n) == [i \in 1..n |-> x]

\* pattern lists of a generated signature: up to MaxPatterns patterns out of
\* "DEPO" and "Taiwan" (the score depends on a list only through counts)
PatternLists ==
    { Rep("DEPO", i) \o Rep("Taiwan", j) :
        i \in 0..MaxPatterns, j \in 0..MaxPatterns } \cap
    UNION { [1..n -> {"DEPO", "Taiwan"}] : n \in 0..MaxPatterns }

\* weights of generated signatures, in tenths
Weights == {-10, 0, 10, 15}

\* longer exclusion lists: three to MaxExclusions patterns
ExclusionLists == { Rep("Taiwan", n) : n \in 3..MaxExclusions }

GeneratedSignatures ==
    { DetectionSignature(req, opt, exc, w) :
        req \in PatternLists, opt \in PatternLists,
        exc \in PatternLists \cup ExclusionLists, w \in Weights }

\* a signature with no required pattern
BareSignature == DetectionSignature(<< >>, << >>, << >>, 10)

\* per-vendor signature lists: a generated signature alone, or before or
\* after the signatures of a built-in vendor list
SignatureLists ==
    { << g >> : g \in GeneratedSignatures }
    \cup { << g >> \o t : g \in GeneratedSignatures,
                          t \in {depo_signatures, << BareSignature >>} }
    \cup { t \o << g >> : g \in GeneratedSignatures,
                          t \in {depo_signatures, << BareSignature >>} }

None == [none |-> TRUE]

\* no call has been made on the detector yet
NoCall == [op |-> "none"]

\* no YearProcessor takes part
NoYearProcessor ==
    /\ max_future_year = 0
    /\ year_cache = << >>
    /\ year_input = None
    /\ year_last = NoCall

\* no PDFIngestor takes part
NoIngestor ==
    /\ ingest_cache = << >>
    /\ ingest_last = NoCall

-----------------------------------------------------------------------------
(* SpecScore: a direct call of _analyze_vendor_signatures *)

InitScore ==
    /\ sig_call \in [full_text : {FullText(d) : d \in Documents},
                     signatures : SignatureLists]
    /\ sig_ret = None
    /\ config = None /\ signatures = << >> /\ loaded = FALSE
    /\ detection_cache = << >> /\ last = NoCall /\ made = None
    /\ NoYearProcessor
    /\ NoIngestor

AnalyzeCall ==
    /\ sig_ret = None
    /\ sig_ret' = AnalyzeVendorSignatures(sig_call.full_text,
                                          sig_call.signatures)
    /\ UNCHANGED <<config, signatures, loaded, detection_cache, last,
                   sig_call, made>>
    /\ UNCHANGED <<year_vars, ingest_vars>>

NextScore == AnalyzeCall

SpecScore == InitScore /\ [][NextScore]_vars

\* the zero-based indices listed in matched_signatures
MatchedSet == {sig_ret.matched_signatures[i] :
                 i \in 1..Len(sig_ret.matched_signatures)}

\* all required patterns of the i-th signature of the call match the text
AllRequiredMatch(i) ==
    \A j \in 1..Len(sig_call.signatures[i].required_patterns) :
        Matches(sig_call.signatures[i].required_patterns[j],
                sig_call.full_text)

\* the number of patterns of a list that match the text of the call
Matched(patterns) ==
    Cardinality({j \in 1..Len(patterns) :
                   Matches(patterns[j], sig_call.full_text)})

\* the call scored a single qualifying signature of positive weight in
\* which no exclusion pattern matches
SingleCleanCall ==
    /\ sig_ret # None
    /\ Len(sig_call.signatures) = 1
    /\ AllRequiredMatch(1)
    /\ Matched(sig_call.signatures[1].exclusion_patterns) = 0
    /\ sig_call.signatures[1].weight > 0

\* C6: a qualifying signature with no exclusion pattern matched scores
\* (0.6 + 0.3 * m / k) * weight, m of its k optional patterns matching, with
\* no bonus when k = 0; with m = k it scores 0.9 * weight
C6_SignatureScore ==
    SingleCleanCall =>
        LET sig == sig_call.signatures[1]
            k == Len(sig.optional_patterns)
            m == Matched(sig.optional_patterns)
        IN /\ k = 0 => sig_ret.total_score = 6 * (Unit \div 100) * sig.weight
           /\ k > 0 => sig_ret.total_score
                         = (6 * k + 3 * m) * (Unit \div (100 * k)) * sig.weight
           /\ (k > 0 /\ m = k) =>
                  sig_ret.total_score = 9 * (Unit \div 100) * sig.weight

\* C6 witness: a signature with required and optional patterns, all of them
\* matched and no exclusion matched, was scored
C6_Witness ==
    /\ SingleCleanCall
    /\ Len(sig_call.signatures[1].required_patterns) > 0
    /\ Len(sig_call.signatures[1].optional_patterns) = 2
    /\ Matched(sig_call.signatures[1].optional_patterns) = 2
    /\ Len(sig_call.signatures[1].exclusion_patterns) > 0
    /\ sig_call.signatures[1].weight = 15
    /\ sig_ret.total_score = (Unit \div 100) * 135

\* C7: a signature of positive weight is counted (listed in
\* matched_signatures, adding to the total) iff all its required patterns
\* match; one missing a required pattern adds 0, and one without required
\* patterns always qualifies, adding at least the 0.6 base score
C7_RequiredGate ==
    sig_ret # None =>
        /\ \A i \in 1..Len(sig_call.signatures) :
              sig_call.signatures[i].weight > 0 =>
                  ((i - 1) \in MatchedSet <=> AllRequiredMatch(i))
        /\ (Len(sig_call.signatures) = 1 /\ ~ AllRequiredMatch(1)) =>
              (sig_ret.total_score = 0 /\ sig_ret.matched_signatures = << >>)
        /\ (sig_ret.total_score > 0) <=>
              (\E i \in 1..Len(sig_call.signatures) :
                  sig_call.signatures[i].weight > 0 /\ AllRequiredMatch(i))
        /\ \A i \in 1..Len(sig_call.signatures) :
              (/\ sig_call.signatures[i].weight > 0
               /\ sig_call.signatures[i].required_patterns = << >>
               /\ Len(sig_call.signatures) = 1
               /\ Matched(sig_call.signatures[i].exclusion_patterns) = 0) =>
                  sig_ret.total_score
                      >= 6 * (Unit \div 100) * sig_call.signatures[i].weight

\* C7 witness: a signature missing one of two required patterns, with all
\* its optional patterns and an exclusion pattern matching, was scored 0
C7_Witness ==
    /\ sig_ret # None
    /\ Len(sig_call.signatures) = 1
    /\ Len(sig_call.signatures[1].required_patterns) = 2
    /\ Matched(sig_call.signatures[1].required_patterns) = 1
    /\ Len(sig_call.signatures[1].optional_patterns) > 0
    /\ Matched(sig_call.signatures[1].optional_patterns)
         = Len(sig_call.signatures[1].optional_patterns)
    /\ Matched(sig_call.signatures[1].exclusion_patterns) > 0
    /\ sig_call.signatures[1].weight > 0
    /\ sig_ret.total_score = 0

-----------------------------------------------------------------------------
(* DetectionResult *)

\* variant: the band boundaries belong to the lower band
ConfidenceBandExclusive(confidence) ==
    IF confidence * 100 > 90 * Unit THEN "very_high"
    ELSE IF confidence * 100 > 70 * Unit THEN "high"
    ELSE IF confidence * 100 > 50 * Unit THEN "medium"
    ELSE IF confidence * 100 > 25 * Unit THEN "low"
    ELSE "very_low"

\* DetectionResult.__post_init__
ConfidenceBand(confidence) ==
    IF confidence >= (90 * Unit) \div 100 THEN "very_high"
    ELSE IF confidence >= (70 * Unit) \div 100 THEN "high"
    ELSE IF confidence >= (50 * Unit) \div 100 THEN "medium"
    ELSE IF confidence >= (25 * Unit) \div 100 THEN "low"
    ELSE "very_low"

\* a keyword argument, or the default of its field
Field(args, name, default) ==
    IF name \in DOMAIN args THEN args[name] ELSE default

\* DetectionResult(**args): vendor, confidence and confidence_level have no
\* default, so the generated __init__ raises TypeError when one is missing;
\* otherwise __post_init__ overwrites confidence_level
NewDetectionResult(args) ==
    IF {"vendor", "confidence", "confidence_level"} \subseteq DOMAIN args
    THEN [exc |-> "",
          value |-> [vendor |-> args.vendor,
                     confidence |-> args.confidence,
                     confidence_level |-> ConfidenceBand(args.confidence),
                     matched_signatures |->
                         Field(args, "matched_signatures", << >>),
                     evidence |-> Field(args, "evidence", "")]]
    ELSE [exc |-> "TypeError"]

-----------------------------------------------------------------------------
(* SpecResult: a direct DetectionResult(...) call *)

\* confidences at, just below and just above every band boundary, the ends
\* of [0, 1] and values outside it
Confidences ==
    { (q * Unit) \div 100 + d : q \in {0, 25, 50, 70, 90, 100},
                                d \in {-1, 0, 1} }
    \cup {(3 * Unit) \div 10, 2 * Unit}

ResultArgs ==
    [vendor : VendorType, confidence : Confidences,
     confidence_level : ConfidenceLevel]
    \cup [vendor : VendorType, confidence : Confidences]

InitResult ==
    /\ made \in [args : ResultArgs, ret : {None}]
    /\ config = None /\ signatures = << >> /\ loaded = FALSE
    /\ detection_cache = << >> /\ last = NoCall
    /\ sig_call = None /\ sig_ret = None
    /\ NoYearProcessor
    /\ NoIngestor

ConstructCall ==
    /\ made.ret = None
    /\ made' = [made EXCEPT !.ret = NewDetectionResult(made.args)]
    /\ UNCHANGED <<config, signatures, loaded, detection_cache, last,
                   sig_call, sig_ret>>
    /\ UNCHANGED <<year_vars, ingest_vars>>

NextResult == ConstructCall

SpecResult == InitResult /\ [][NextResult]_vars

\* every DetectionResult there is: the one just constructed, the one the
\* last detect_vendor call returned, and those held in the cache
LiveResults ==
    (IF made # None /\ made.ret # None /\ made.ret.exc = ""
     THEN {made.ret.value} ELSE {})
    \cup (IF last.op = "detect_vendor" /\ last.outcome = "returned"
          THEN {last.result} ELSE {})
    \cup {detection_cache[k] : k \in DOMAIN detection_cache}

\* the band of the claim, with each boundary in the upper band
BandOf(c) ==
    CASE c * 100 >= 90 * Unit -> "very_high"
      [] c * 100 < 90 * Unit /\ c * 100 >= 70 * Unit -> "high"
      [] c * 100 < 70 * Unit /\ c * 100 >= 50 * Unit -> "medium"
      [] c * 100 < 50 * Unit /\ c * 100 >= 25 * Unit -> "low"
      [] c * 100 < 25 * Unit -> "very_low"

\* C8: every DetectionResult has confidence_level equal to the band of its
\* confidence, whatever level the caller supplied: >= 0.90 very_high,
\* [0.70, 0.90) high, [0.50, 0.70) medium, [0.25, 0.50) low, else very_low
C8_ConfidenceBanding ==
    \A r \in LiveResults : r.confidence_level = BandOf(r.confidence)

\* C8 witness: a result was constructed with confidence exactly 0.90 and a
\* supplied level of very_low, and holds very_high
C8_Witness ==
    /\ made # None /\ made.ret # None /\ made.ret.exc = ""
    /\ made.args.confidence * 100 = 90 * Unit
    /\ made.args.confidence_level = "very_low"
    /\ made.ret.value.confidence_level = "very_high"

-----------------------------------------------------------------------------
(* VendorSignatureManager._load_signatures *)

\* vendor_name.lower()
Lower(name) ==
    CASE name = "DEPO" -> "depo"
      [] name = "YUTO" -> "yuto"
      [] OTHER -> name

\* self.signatures[vendor_type] = signatures on an insertion-ordered dict
StorePut(store, vendor, sigs) ==
    IF \E i \in 1..Len(store) : store[i].vendor = vendor
    THEN [i \in 1..Len(store) |->
            IF store[i].vendor = vendor
            THEN [vendor |-> vendor, sigs |-> sigs] ELSE store[i]]
    ELSE Append(store, [vendor |-> vendor, sigs |-> sigs])

\* the outcome of an unknown vendor name if its ValueError were fatal
LoadVendorUnknownFatal(before, entry) ==
    IF Lower(entry.name) \notin VendorType
    THEN [store |-> before.store, failed |-> TRUE]
    ELSE IF entry.data.malformed
         THEN [store |-> before.store, failed |-> TRUE]
    ELSE [store |-> StorePut(before.store, Lower(entry.name),
                             entry.data.signatures),
          failed |-> FALSE]

\* one round of the loop over vendors.items(): an unknown vendor name
\* raises ValueError, caught inside the loop (the entry is skipped); any
\* other exception leaves the loop with what was stored so far
LoadVendor(before, entry) ==
    IF Lower(entry.name) \notin VendorType THEN before
    ELSE IF entry.data.malformed
         THEN [store |-> before.store, failed |-> TRUE]
    ELSE [store |-> StorePut(before.store, Lower(entry.name),
                             entry.data.signatures),
          failed |-> FALSE]

RECURSIVE LoadVendors(_, _, _)
\* the loop over vendors.items(), entries 1..n, left at the first failure
LoadVendors(store, vendors, n) ==
    IF n = 0 THEN [store |-> store, failed |-> FALSE]
    ELSE LET Round(before) ==
                 IF before.failed THEN before
                 ELSE LoadVendor(before, vendors[n])
         IN Round(LoadVendors(store, vendors, n - 1))

\* _load_signatures on a manager whose dict is store: the try block, then
\* the defaults when the dict is still empty
LoadSignatures(cfg, store) ==
    LET after == IF cfg.raises THEN store
                 ELSE LoadVendors(store, cfg.vendors, Len(cfg.vendors)).store
    IN IF after = << >> THEN DefaultSignatures ELSE after

-----------------------------------------------------------------------------
(* SpecLoad: construction of a VendorSignatureManager *)

\* signatures found in configuration files
ConfigSignatureA ==
    DetectionSignature(<< "DEPO" >>, << "Taiwan" >>, << "YUTO" >>, 10)
ConfigSignatureB ==
    DetectionSignature(<< "ACME" >>, << >>, << >>, 10)

\* the value of one vendor entry: a signature list, or something whose
\* processing raises (not a mapping, a signature that is not a mapping, an
\* invalid regular expression)
VendorData ==
    {[malformed |-> TRUE, signatures |-> << >>]}
    \cup {[malformed |-> FALSE, signatures |-> l] :
            l \in {<< >>, << ConfigSignatureA >>,
                   << ConfigSignatureA, ConfigSignatureB >>}}

VendorNames == {"depo", "DEPO", "yuto", "acme", "unknown"}

\* ordered mappings of up to MaxVendors distinct names
VendorMappings ==
    UNION { { v \in [1..n -> [name : VendorNames, data : VendorData]] :
                \A i, j \in 1..n : i # j => v[i].name # v[j].name } :
            n \in 0..MaxVendors }

\* what config_manager.get_vendor_signatures() does: raise (file missing or
\* unreadable), or return a mapping with these vendors
Configs ==
    {[raises |-> TRUE, vendors |-> << >>]}
    \cup {[raises |-> FALSE, vendors |-> v] : v \in VendorMappings}

InitLoad ==
    /\ config \in Configs
    /\ signatures = << >>
    /\ loaded = FALSE
    /\ detection_cache = << >> /\ last = NoCall
    /\ sig_call = None /\ sig_ret = None /\ made = None
    /\ NoYearProcessor
    /\ NoIngestor

LoadCall ==
    /\ ~ loaded
    /\ signatures' = LoadSignatures(config, signatures)
    /\ loaded' = TRUE
    /\ UNCHANGED <<config, detection_cache, last, sig_call, sig_ret, made>>
    /\ UNCHANGED <<year_vars, ingest_vars>>

NextLoad == LoadCall

SpecLoad == InitLoad /\ [][NextLoad]_vars

\* the load met a failure: the source raised, or an entry with a known
\* vendor name is malformed
LoadFailed ==
    \/ config.raises
    \/ \E i \in 1..Len(config.vendors) :
          /\ Lower(config.vendors[i].name) \in VendorType
          /\ config.vendors[i].data.malformed

\* the configuration yields no vendor at all
LoadEmpty ==
    \A i \in 1..Len(config.vendors) :
        Lower(config.vendors[i].name) \notin VendorType

\* C10: after the store loads, on any load failure (source missing or
\* raising, a malformed entry part-way through the vendor list) or an empty
\* result, the store holds the built-in default set
C10_DefaultsOnFailure ==
    (loaded /\ (LoadFailed \/ LoadEmpty)) => signatures = DefaultSignatures

-----------------------------------------------------------------------------
(* TextExtractor.extract_text_from_pdf *)

\* a backend is not installed, raises on this file, or reads it
BackendStates == {"unavailable", "raises", "ok"}

\* PyMuPDF first, pdfplumber as the fallback, an empty mapping when neither
\* returns; doc is the page texts either backend reads from the file
ExtractTextFromPdf(pymupdf, pdfplumber, doc) ==
    IF pymupdf = "ok" THEN doc
    ELSE IF pdfplumber = "ok" THEN doc
    ELSE << >>

-----------------------------------------------------------------------------
(* VendorDetector._perform_detection *)

\* the vendors scored, in the order of get_all_signatures().items(), with
\* UNKNOWN skipped
ScoredVendors(store) ==
    SelectSeq(store, LAMBDA e : e.vendor # "unknown")

\* vendor_scores and detailed_analysis, in insertion order
VendorScores(store, full_text) ==
    [i \in 1..Len(ScoredVendors(store)) |->
        [vendor |-> ScoredVendors(store)[i].vendor,
         analysis |-> AnalyzeVendorSignatures(full_text,
                                              ScoredVendors(store)[i].sigs)]]

\* max(vendor_scores.values())
MaxScore(scores) ==
    CHOOSE m \in {scores[i].analysis.total_score : i \in 1..Len(scores)} :
        \A i \in 1..Len(scores) : scores[i].analysis.total_score <= m

\* max(vendor_scores.keys(), key=...): the first key with the largest score
FirstMax(scores) ==
    CHOOSE i \in 1..Len(scores) :
        /\ scores[i].analysis.total_score = MaxScore(scores)
        /\ \A j \in 1..(i - 1) :
              scores[j].analysis.total_score < MaxScore(scores)

\* detailed_analysis.get(VendorType.GENERIC, {}).get('matched_signatures', [])
GenericMatched(scores) ==
    IF \E i \in 1..Len(scores) : scores[i].vendor = "generic"
    THEN scores[CHOOSE i \in 1..Len(scores) : scores[i].vendor = "generic"]
             .analysis.matched_signatures
    ELSE << >>

\* best_vendor, confidence and the matched signatures of the best analysis
BestMatch(store, full_text) ==
    LET scores == VendorScores(store, full_text)
    IN IF scores = << >> \/ MaxScore(scores) = 0
       THEN [vendor |-> "generic",
             confidence |-> (3 * Unit) \div 10,
             matched_signatures |-> GenericMatched(scores)]
       ELSE [vendor |-> scores[FirstMax(scores)].vendor,
             confidence |->
                 Min(scores[FirstMax(scores)].analysis.total_score, Unit),
             matched_signatures |->
                 scores[FirstMax(scores)].analysis.matched_signatures]

\* _perform_detection: the outcome of its DetectionResult(...) call
PerformDetection(store, page_texts) ==
    IF page_texts = << >>
    THEN NewDetectionResult(
             [vendor |-> "unknown", confidence |-> 0,
              evidence |-> "No se pudo extraer texto del PDF"])
    ELSE LET best == BestMatch(store, FullText(page_texts))
         IN NewDetectionResult(
                [vendor |-> best.vendor,
                 confidence |-> best.confidence,
                 matched_signatures |-> best.matched_signatures,
                 evidence |-> "analysis_summary"])

-----------------------------------------------------------------------------
(* VendorDetector.detect_vendor and clear_cache *)

Paths == {"a.pdf", "b.pdf"}
Hashes == {"h1", "h2"}

\* the PDFMetadata fields detect_vendor reads
Metadata == [file_path : Paths, file_hash : Hashes, status : PDFStatus]

\* cache_key = f"{file_path}:{pdf_metadata.file_hash}"
CacheKey(pdf_metadata) ==
    pdf_metadata.file_path \o ":" \o pdf_metadata.file_hash

\* ContextLogger.info(msg, **kwargs) passes kwargs on to
\* _log_with_context(level, msg, **kwargs): a keyword named level collides
\* with that parameter and the call raises TypeError
LoggerRaises(kwargs) == "level" \in kwargs

\* self._detection_cache[cache_key] = result
CachePut(cache, key, result) ==
    [k \in DOMAIN cache \cup {key} |-> IF k = key THEN result ELSE cache[k]]

\* the record of one detect_vendor call
Call(pdf_metadata, force_refresh, extracted, page_texts, ret) ==
    [op |-> "detect_vendor",
     key |-> CacheKey(pdf_metadata),
     file_path |-> pdf_metadata.file_path,
     file_hash |-> pdf_metadata.file_hash,
     status |-> pdf_metadata.status,
     force_refresh |-> force_refresh,
     extracted |-> extracted,
     scored |-> extracted /\ page_texts # << >>,
     page_texts |-> page_texts,
     outcome |-> IF ret.exc = "" THEN "returned" ELSE "raised",
     result |-> IF ret.exc = "" THEN ret.value ELSE None]

\* the steps after the status check: extraction, scoring, caching, the
\* closing log call
DetectValid(pdf_metadata, force_refresh, page_texts) ==
    LET ret == PerformDetection(signatures, page_texts)
    IN IF ret.exc # ""
       THEN /\ last' = Call(pdf_metadata, force_refresh, TRUE, page_texts, ret)
            /\ UNCHANGED detection_cache
       ELSE /\ detection_cache' =
                   CachePut(detection_cache, CacheKey(pdf_metadata), ret.value)
            /\ last' = Call(pdf_metadata, force_refresh, TRUE, page_texts,
                            IF LoggerRaises({"confidence", "level",
                                             "evidence_count"})
                            THEN [exc |-> "TypeError"] ELSE ret)

\* detect_vendor(pdf_metadata, force_refresh); the backends and the document
\* are consulted only when the text extractor is invoked
DetectVendor(pdf_metadata, force_refresh) ==
    LET cache_key == CacheKey(pdf_metadata)
    IN
    /\ loaded
    /\ IF ~ force_refresh /\ cache_key \in DOMAIN detection_cache
       THEN /\ last' = Call(pdf_metadata, force_refresh, FALSE, << >>,
                            [exc |-> "", value |-> detection_cache[cache_key]])
            /\ UNCHANGED detection_cache
       ELSE IF pdf_metadata.status # "valid"
       THEN LET ret == NewDetectionResult(
                           [vendor |-> "unknown", confidence |-> 0,
                            evidence |-> "PDF invalido"])
            IN /\ last' = Call(pdf_metadata, force_refresh, FALSE, << >>, ret)
               /\ detection_cache' =
                      IF ret.exc = ""
                      THEN CachePut(detection_cache, cache_key, ret.value)
                      ELSE detection_cache
       ELSE \E pymupdf \in BackendStates, pdfplumber \in BackendStates,
               doc \in Documents :
               DetectValid(pdf_metadata, force_refresh,
                           ExtractTextFromPdf(pymupdf, pdfplumber, doc))
    /\ UNCHANGED <<config, signatures, loaded, sig_call, sig_ret, made>>
    /\ UNCHANGED <<year_vars, ingest_vars>>

ClearCache ==
    /\ loaded
    /\ detection_cache' = [k \in {} |-> None]
    /\ last' = [op |-> "clear_cache",
                cleared |-> Cardinality(DOMAIN detection_cache)]
    /\ UNCHANGED <<config, signatures, loaded, sig_call, sig_ret, made>>
    /\ UNCHANGED <<year_vars, ingest_vars>>

-----------------------------------------------------------------------------
(* Spec: one VendorDetector *)

\* configuration sources of the detectors checked: none (the built-in
\* defaults), two DEPO signatures after one heavier signature filed under
\* "yuto" and signatures filed under "unknown" and "generic", with the
\* "generic" signature filed under "hushan" too, and signatures for
\* "unknown" alone
DetectorConfigs ==
    { [raises |-> TRUE, vendors |-> << >>],
      [raises |-> FALSE, vendors |->
          << [name |-> "unknown",
              data |-> [malformed |-> FALSE,
                        signatures |-> << BareSignature >>]],
             [name |-> "generic",
              data |-> [malformed |-> FALSE,
                        signatures |-> << ConfigSignatureB >>]],
             [name |-> "yuto",
              data |-> [malformed |-> FALSE,
                        signatures |->
                            << DetectionSignature(<< "DEPO" >>,
                                                  << "Taiwan" >>,
                                                  << >>, 15) >>]],
             [name |-> "depo",
              data |-> [malformed |-> FALSE,
                        signatures |-> << ConfigSignatureA,
                                          ConfigSignatureA >>]],
             [name |-> "hushan",
              data |-> [malformed |-> FALSE,
                        signatures |-> << ConfigSignatureB >>]] >>],
      [raises |-> FALSE, vendors |->
          << [name |-> "unknown",
              data |-> [malformed |-> FALSE,
                        signatures |-> << BareSignature >>]] >>] }

Init ==
    /\ config \in DetectorConfigs
    /\ signatures = LoadSignatures(config, << >>)
    /\ loaded = TRUE
    /\ detection_cache = [k \in {} |-> None]
    /\ last = NoCall
    /\ sig_call = None /\ sig_ret = None /\ made = None
    /\ NoYearProcessor
    /\ NoIngestor

Next ==
    \/ \E pdf_metadata \in Metadata, force_refresh \in BOOLEAN :
          DetectVendor(pdf_metadata, force_refresh)
    \/ ClearCache

Spec == Init /\ [][Next]_vars

-----------------------------------------------------------------------------
(* Properties of detect_vendor *)

\* the last call was a detect_vendor call
Detected == last.op = "detect_vendor"

\* the last call ran detection on a VALID document whose text was extracted
DetectedText ==
    /\ Detected /\ last.status = "valid"
    /\ last.extracted /\ last.page_texts # << >>

\* every required pattern of a signature matches the extracted text
RequiredAllMatch(sig) ==
    \A j \in 1..Len(sig.required_patterns) :
        Matches(sig.required_patterns[j], FullText(last.page_texts))

\* the store entries that take part in scoring
Scorable == {i \in 1..Len(signatures) : signatures[i].vendor # "unknown"}

\* the total score of the i-th store entry on the extracted text
TotalOf(i) ==
    TotalScore(signatures[i].sigs, FullText(last.page_texts),
               Len(signatures[i].sigs))

\* C1: detect_vendor never raises: whatever the metadata status and the
\* outcome of text extraction, the call returns a DetectionResult
C1_NeverRaises ==
    Detected =>
        /\ last.outcome = "returned"
        /\ last.result.vendor \in VendorType
        /\ last.result.confidence_level \in ConfidenceLevel

\* C2: every call whose metadata status is not VALID returns UNKNOWN with
\* confidence 0 and does not invoke the text extractor
C2_InvalidIsUnknown ==
    (Detected /\ last.status # "valid") =>
        /\ last.outcome = "returned"
        /\ last.result.vendor = "unknown"
        /\ last.result.confidence = 0
        /\ ~ last.extracted

\* C3: absent force_refresh, a detect_vendor call that follows a call with
\* the same (path, hash) returns a result equal to the first and does not
\* invoke the text extractor again
C3_Idempotent ==
    [][(/\ Detected
        /\ last'.op = "detect_vendor"
        /\ last'.file_path = last.file_path
        /\ last'.file_hash = last.file_hash
        /\ ~ last'.force_refresh)
       => (/\ last.outcome = "returned"
           /\ last'.outcome = "returned"
           /\ last'.result = last.result
           /\ ~ last'.extracted)]_vars

\* C4: for a VALID document with extractable text in which no vendor has a
\* signature whose required patterns all match, detect_vendor returns
\* GENERIC with confidence exactly 0.3
C4_GenericFallback ==
    (/\ DetectedText
     /\ \A i \in Scorable : \A n \in 1..Len(signatures[i].sigs) :
            ~ RequiredAllMatch(signatures[i].sigs[n]))
    => (/\ last.outcome = "returned"
        /\ last.result.vendor = "generic"
        /\ last.result.confidence * 10 = 3 * Unit)

\* C5: when some vendor has a positive total score, detect_vendor returns a
\* vendor other than UNKNOWN whose total is the maximum over the scored
\* vendors, with confidence min(total, 1.0), which lies in [0, 1]
C5_MaxScore ==
    (DetectedText /\ \E i \in Scorable : TotalOf(i) > 0)
    => (/\ last.outcome = "returned"
        /\ last.result.vendor # "unknown"
        /\ \E i \in Scorable :
              /\ signatures[i].vendor = last.result.vendor
              /\ \A j \in Scorable : TotalOf(j) <= TotalOf(i)
              /\ last.result.confidence
                   = (IF TotalOf(i) < Unit THEN TotalOf(i) ELSE Unit)
        /\ last.result.confidence >= 0
        /\ last.result.confidence <= Unit)

\* C9: for a VALID document for which text extraction yields an empty
\* mapping, detect_vendor returns UNKNOWN with confidence 0 and evidence
\* carrying the failure reason, and scores no signature
C9_NoTextIsUnknown ==
    (/\ Detected /\ last.status = "valid"
     /\ last.extracted /\ last.page_texts = << >>)
    => (/\ last.outcome = "returned"
        /\ last.result.vendor = "unknown"
        /\ last.result.confidence = 0
        /\ last.result.evidence = "No se pudo extraer texto del PDF"
        /\ ~ last.scored)

-----------------------------------------------------------------------------
(* years.py: texts                                                         *)
(*                                                                         *)
(* A str is the sequence of its characters.  The characters in use are     *)
(* ASCII: digits, letters, the blank and punctuation.                      *)

Digits == {"0", "1", "2", "3", "4", "5", "6", "7", "8", "9"}

Letters == {"a", "b", "c", "d", "e", "f", "g", "h", "i", "j", "k", "l", "m",
            "n", "o", "p", "q", "r", "s", "t", "u", "v", "w", "x", "y", "z",
            "A", "B", "C", "D", "E", "F", "G", "H", "I", "J", "K", "L", "M",
            "N", "O", "P", "Q", "R", "S", "T", "U", "V", "W", "X", "Y", "Z"}

\* the character at index i (from 1), "" outside the text
At(t, i) == IF i \in 1..Len(t) THEN t[i] ELSE ""

\* t[i-1:j-1] of Python: the characters at indices i .. j-1
Slice(t, i, j) == SubSeq(t, i, j - 1)

\* \d, restricted to ASCII
IsDigit(c) == c \in Digits

\* \s
IsSpace(c) == c = " "

\* \w
WordChars == Digits \cup Letters \cup {"_"}

\* \b in front of index i
WordBoundary(t, i) == (At(t, i - 1) \in WordChars) # (At(t, i) \in WordChars)

\* \s* from index i: the index of the first character that is not blank
RECURSIVE SkipSpaces(_, _)
SkipSpaces(t, i) == IF IsSpace(At(t, i)) THEN SkipSpaces(t, i + 1) ELSE i

\* str.strip()
RECURSIVE Strip(_)
Strip(t) ==
    IF t = << >> THEN t
    ELSE IF IsSpace(Head(t)) THEN Strip(Tail(t))
    ELSE IF IsSpace(t[Len(t)]) THEN Strip(SubSeq(t, 1, Len(t) - 1))
    ELSE t

\* str.replace(c, "")
RECURSIVE Remove(_, _)
Remove(t, c) ==
    IF t = << >> THEN t
    ELSE IF Head(t) = c THEN Remove(Tail(t), c)
    ELSE << Head(t) >> \o Remove(Tail(t), c)

\* str.split(c)
RECURSIVE Split(_, _)
Split(t, c) ==
    IF \A i \in 1..Len(t) : t[i] # c THEN << t >>
    ELSE LET i == CHOOSE k \in 1..Len(t) :
                      t[k] = c /\ \A j \in 1..(k - 1) : t[j] # c
         IN << SubSeq(t, 1, i - 1) >> \o Split(SubSeq(t, i + 1, Len(t)), c)

\* str.lower()
LowerText(t) ==
    LET lower(c) ==
            CASE c = "A" -> "a" [] c = "B" -> "b" [] c = "C" -> "c" [] c = "D" -> "d" []
                  c = "E" -> "e" [] c = "F" -> "f" [] c = "G" -> "g" [] c = "H" -> "h" []
                  c = "I" -> "i" [] c = "J" -> "j" [] c = "K" -> "k" [] c = "L" -> "l" []
                  c = "M" -> "m" [] c = "N" -> "n" [] c = "O" -> "o" [] c = "P" -> "p" []
                  c = "Q" -> "q" [] c = "R" -> "r" [] c = "S" -> "s" [] c = "T" -> "t" []
                  c = "U" -> "u" [] c = "V" -> "v" [] c = "W" -> "w" [] c = "X" -> "x" []
                  c = "Y" -> "y" [] c = "Z" -> "z"
              [] OTHER -> c
    IN [i \in 1..Len(t) |-> lower(t[i])]

\* the number written by a run of digits
RECURSIVE DecimalValue(_)
DecimalValue(t) ==
    LET digit(c) ==
            CASE c = "0" -> 0 [] c = "1" -> 1 [] c = "2" -> 2 [] c = "3" -> 3
              [] c = "4" -> 4 [] c = "5" -> 5 [] c = "6" -> 6 [] c = "7" -> 7
              [] c = "8" -> 8 [] c = "9" -> 9
    IN IF t = << >> THEN 0
       ELSE 10 * DecimalValue(SubSeq(t, 1, Len(t) - 1)) + digit(t[Len(t)])

\* int(t) for a text without blanks, signs and underscores: ValueError when
\* t is empty or holds a character that is not a digit
IntOf(t) ==
    IF t # << >> /\ \A i \in 1..Len(t) : IsDigit(t[i])
    THEN [exc |-> "", value |-> DecimalValue(t)]
    ELSE [exc |-> "ValueError", value |-> 0]

-----------------------------------------------------------------------------
(* YearProcessor.PATTERNS                                                  *)
(*                                                                         *)
(* Each pattern is the operator that matches it at one start index.  A     *)
(* match is the record of where it starts, where it stops (the index after *)
(* its last character) and its groups; alternatives and repetitions are    *)
(* tried in the order re tries them.                                       *)

NoMatch == [found |-> FALSE, start |-> 0, stop |-> 0, g1 |-> << >>,
            g2 |-> << >>]

Match(start, stop, g1, g2) ==
    [found |-> TRUE, start |-> start, stop |-> stop, g1 |-> g1, g2 |-> g2]

\* (19[0-9]{2}|20[0-9]{2}) at index i
FullYearAt(t, i) ==
    /\ << At(t, i), At(t, i + 1) >> \in { <<"1", "9">>, <<"2", "0">> }
    /\ IsDigit(At(t, i + 2))
    /\ IsDigit(At(t, i + 3))

\* (\d{2}) at index i
TwoDigitsAt(t, i) == IsDigit(At(t, i)) /\ IsDigit(At(t, i + 1))

\* [-~\/]
IsRangeSeparator(c) == c \in {"-", "~", "/"}

\* '? at index i: the index after the apostrophe when there is one (without
\* it the digits that must follow cannot match at i)
SkipApostrophe(t, i) == IF At(t, i) = "'" THEN i + 1 ELSE i

\* 'full_single': \b(19[0-9]{2}|20[0-9]{2})\b
full_single(t, i) ==
    IF WordBoundary(t, i) /\ FullYearAt(t, i) /\ WordBoundary(t, i + 4)
    THEN Match(i, i + 4, Slice(t, i, i + 4), << >>)
    ELSE NoMatch

\* 'short_single': '?(\d{2})\b
short_single(t, i) ==
    LET d == SkipApostrophe(t, i)
    IN IF TwoDigitsAt(t, d) /\ WordBoundary(t, d + 2)
       THEN Match(i, d + 2, Slice(t, d, d + 2), << >>)
       ELSE NoMatch

\* 'range_full': \b(19[0-9]{2}|20[0-9]{2})\s*[-~\/]\s*(19[0-9]{2}|20[0-9]{2})\b
range_full(t, i) ==
    LET sep == SkipSpaces(t, i + 4)
        e == SkipSpaces(t, sep + 1)
    IN IF /\ WordBoundary(t, i) /\ FullYearAt(t, i)
          /\ IsRangeSeparator(At(t, sep))
          /\ FullYearAt(t, e) /\ WordBoundary(t, e + 4)
       THEN Match(i, e + 4, Slice(t, i, i + 4), Slice(t, e, e + 4))
       ELSE NoMatch

\* 'range_short': '?(\d{2})\s*[-~\/]\s*'?(\d{2})\b
range_short(t, i) ==
    LET d == SkipApostrophe(t, i)
        sep == SkipSpaces(t, d + 2)
        e == SkipApostrophe(t, SkipSpaces(t, sep + 1))
    IN IF /\ TwoDigitsAt(t, d)
          /\ IsRangeSeparator(At(t, sep))
          /\ TwoDigitsAt(t, e) /\ WordBoundary(t, e + 2)
       THEN Match(i, e + 2, Slice(t, d, d + 2), Slice(t, e, e + 2))
       ELSE NoMatch

\* 'range_mixed': '?(\d{2})\s*[-~\/]\s*(19[0-9]{2}|20[0-9]{2})\b
range_mixed(t, i) ==
    LET d == SkipApostrophe(t, i)
        sep == SkipSpaces(t, d + 2)
        e == SkipSpaces(t, sep + 1)
    IN IF /\ TwoDigitsAt(t, d)
          /\ IsRangeSeparator(At(t, sep))
          /\ FullYearAt(t, e) /\ WordBoundary(t, e + 4)
       THEN Match(i, e + 4, Slice(t, d, d + 2), Slice(t, e, e + 4))
       ELSE NoMatch

\* (?:(?:19|20)[0-9]{2}|\'?\d{2}) at index i: the indices where an element
\* can stop, in the order the alternatives are tried
ListElementStops(t, i) ==
    (IF FullYearAt(t, i) THEN << i + 4 >> ELSE << >>)
    \o (IF TwoDigitsAt(t, SkipApostrophe(t, i))
        THEN << SkipApostrophe(t, i) + 2 >> ELSE << >>)

\* (?:\s*,\s*(?:...))+\b from index i, after n repetitions: the index where
\* the match stops, 0 when there is none; a further repetition is tried
\* before stopping (the quantifier is greedy)
RECURSIVE ListTailStop(_, _, _)
ListTailStop(t, i, n) ==
    LET Stop(first, second) ==
            IF first # 0 THEN first
            ELSE IF second # 0 THEN second
            ELSE IF n >= 1 /\ WordBoundary(t, i) THEN i
            ELSE 0
        Repeat(stops) ==
            Stop(IF Len(stops) >= 1 THEN ListTailStop(t, stops[1], n + 1)
                 ELSE 0,
                 IF Len(stops) >= 2 THEN ListTailStop(t, stops[2], n + 1)
                 ELSE 0)
        Element(comma) ==
            Repeat(IF At(t, comma) = ","
                   THEN ListElementStops(t, SkipSpaces(t, comma + 1))
                   ELSE << >>)
    IN Element(SkipSpaces(t, i))

\* 'list_comma':
\* \b(?:(?:19|20)[0-9]{2}|\'?\d{2})(?:\s*,\s*(?:(?:19|20)[0-9]{2}|\'?\d{2}))+\b
list_comma(t, i) ==
    LET Found(stop) ==
            IF WordBoundary(t, i) /\ stop # 0
            THEN Match(i, stop, << >>, << >>)
            ELSE NoMatch
        Stop(first, second) == Found(IF first # 0 THEN first ELSE second)
        Repeat(stops) ==
            Stop(IF Len(stops) >= 1 THEN ListTailStop(t, stops[1], 0) ELSE 0,
                 IF Len(stops) >= 2 THEN ListTailStop(t, stops[2], 0) ELSE 0)
    IN Repeat(ListElementStops(t, i))

\* [0-9\-\~\,\'\s]
IsYearChar(c) == IsDigit(c) \/ IsSpace(c) \/ c \in {"-", "~", ",", "'"}

\* [0-9\-\~\,\'\s]+ from index i: the index after the longest run
RECURSIVE SkipYearChars(_, _)
SkipYearChars(t, i) ==
    IF IsYearChar(At(t, i)) THEN SkipYearChars(t, i + 1) ELSE i

\* the index after the first of the words ws found at index i, letter case
\* ignored; 0 when none is there
AfterWord(t, i, ws) ==
    LET First(found) ==
            IF found = {} THEN 0
            ELSE i + Len(ws[CHOOSE k \in found : \A j \in found : k <= j])
    IN First({k \in 1..Len(ws) :
                 LowerText(Slice(t, i, Min(i + Len(ws[k]), Len(t) + 1)))
                     = ws[k]})

\* 'depo_format': [\[\(]\s*([0-9\-\~\,\'\s]+)\s*[\]\)]
\* the run of year characters must reach the closing bracket; the group
\* leaves out the leading blanks, unless the run is blank, when it is the
\* last blank
depo_format(t, i) ==
    LET run == SkipSpaces(t, i + 1)
        stop == SkipYearChars(t, i + 1)
    IN IF /\ At(t, i) \in {"[", "("}
          /\ stop > i + 1
          /\ At(t, stop) \in {"]", ")"}
       THEN Match(i, stop + 1,
                  Slice(t, IF run = stop THEN stop - 1 ELSE run, stop), << >>)
       ELSE NoMatch

\* 'yuto_format': ([0-9\-\~\,\'\s]+)(?:\s+type|\s+model|\s+year), IGNORECASE
\* the run of year characters gives back its last blank to \s+
yuto_format(t, i) ==
    LET Found(stop, word) ==
            IF stop - 1 > i /\ IsSpace(At(t, stop - 1)) /\ word # 0
            THEN Match(i, word, Slice(t, i, stop - 1), << >>)
            ELSE NoMatch
        Word(stop) ==
            Found(stop, AfterWord(t, stop, << <<"t", "y", "p", "e">>,
                                              <<"m", "o", "d", "e", "l">>,
                                              <<"y", "e", "a", "r">> >>))
    IN Word(SkipYearChars(t, i))

\* 'hushan_format': (?:year|yr|model)\s*:?\s*([0-9\-\~\,\'\s]+), IGNORECASE
\* the group starts after the blanks; when no year character follows them it
\* is the last blank, behind the colon or else in front of it
hushan_format(t, i) ==
    LET Found(word, colon, blanks, run, stop) ==
            IF word = 0 THEN NoMatch
            ELSE IF stop > run
            THEN Match(i, stop, Slice(t, run, stop), << >>)
            ELSE IF run > blanks
            THEN Match(i, run, Slice(t, run - 1, run), << >>)
            ELSE IF colon > word
            THEN Match(i, colon, Slice(t, colon - 1, colon), << >>)
            ELSE NoMatch
        Run(word, colon, blanks, run) ==
            Found(word, colon, blanks, run, SkipYearChars(t, run))
        Blanks(word, colon, blanks) ==
            Run(word, colon, blanks, SkipSpaces(t, blanks))
        Colon(word, colon) ==
            Blanks(word, colon,
                   IF At(t, colon) = ":" THEN colon + 1 ELSE colon)
        Word(word) == Colon(word, SkipSpaces(t, word))
    IN Word(AfterWord(t, i, << <<"y", "e", "a", "r">>, <<"y", "r">>,
                               <<"m", "o", "d", "e", "l">> >>))

\* self.PATTERNS[key], matched at index i
PATTERNS(key, t, i) ==
    CASE key = "full_single" -> full_single(t, i)
      [] key = "short_single" -> short_single(t, i)
      [] key = "range_full" -> range_full(t, i)
      [] key = "range_short" -> range_short(t, i)
      [] key = "range_mixed" -> range_mixed(t, i)
      [] key = "list_comma" -> list_comma(t, i)
      [] key = "depo_format" -> depo_format(t, i)
      [] key = "yuto_format" -> yuto_format(t, i)
      [] key = "hushan_format" -> hushan_format(t, i)

\* PATTERNS[key].search(t) from index i on: the leftmost match
RECURSIVE SearchFrom(_, _, _)
SearchFrom(key, t, i) ==
    LET Leftmost(m) == IF m.found THEN m ELSE SearchFrom(key, t, i + 1)
    IN IF i > Len(t) THEN NoMatch ELSE Leftmost(PATTERNS(key, t, i))

\* PATTERNS[key].findall(t) from index i on: group 1 of every match, each
\* search resuming where the previous match stopped
RECURSIVE FindAllFrom(_, _, _)
FindAllFrom(key, t, i) ==
    LET Groups(m) ==
            IF m.found THEN << m.g1 >> \o FindAllFrom(key, t, m.stop)
            ELSE << >>
    IN Groups(SearchFrom(key, t, i))


-----------------------------------------------------------------------------
(* YearRange                                                               *)

YearFormat == {"FULL_YEAR", "SHORT_YEAR", "RANGE_FULL", "RANGE_SHORT",
               "RANGE_MIXED", "LIST_MIXED", "INVALID"}

\* YearRange(start_year, end_year, original_text, format_detected) with its
\* __post_init__, which keeps both years whatever their order
YearRangeUnordered(start_year, end_year, original_text, format_detected) ==
    [start_year |-> start_year, end_year |-> end_year,
     original_text |-> original_text, format_detected |-> format_detected]

\* YearRange(start_year, end_year, original_text, format_detected) with its
\* __post_init__
YearRange(start_year, end_year, original_text, format_detected) ==
    IF start_year > end_year
    THEN [start_year |-> end_year, end_year |-> start_year,
          original_text |-> original_text, format_detected |-> format_detected]
    ELSE [start_year |-> start_year, end_year |-> end_year,
          original_text |-> original_text, format_detected |-> format_detected]

\* YearRange.expand without the + 1
expand_exclusive(self) ==
    LET range(a, b) == [i \in 1..Max(b - a, 0) |-> a + i - 1]
    IN range(self.start_year, self.end_year)

\* YearRange.expand: list(range(start_year, end_year + 1)), the range of
\* Python being half-open
expand(self) ==
    LET range(a, b) == [i \in 1..Max(b - a, 0) |-> a + i - 1]
    IN range(self.start_year, self.end_year + 1)

-----------------------------------------------------------------------------
(* YearProcessor: parsing                                                  *)

MIN_AUTOMOTIVE_YEAR == 1885

\* an Optional value that is not None
Some(value) == [none |-> FALSE, value |-> value]

\* convert_short_year with the limit of the 2000s one year early
convert_short_year_28(short_year) ==
    IF short_year <= 28 THEN 2000 + short_year ELSE 1900 + short_year

\* convert_short_year
convert_short_year(short_year) ==
    IF short_year <= 29 THEN 2000 + short_year ELSE 1900 + short_year

\* is_valid_automotive_year
is_valid_automotive_year(year) ==
    MIN_AUTOMOTIVE_YEAR <= year /\ year <= max_future_year

\* parse_single_year that clamps a year out of range to the nearest limit
parse_single_year_clamping(text) ==
    LET Checked(year_int) ==
            Some(Max(MIN_AUTOMOTIVE_YEAR, Min(year_int, max_future_year)))
        Converted(parsed) ==
            IF parsed.exc = "ValueError" THEN None
            ELSE Checked(IF 0 <= parsed.value /\ parsed.value <= 99
                         THEN convert_short_year(parsed.value)
                         ELSE parsed.value)
    IN Converted(IntOf(Remove(Strip(text), "'")))

\* parse_single_year: None for a year out of range and for a ValueError of
\* int(), both after a logged warning
parse_single_year(text) ==
    LET Checked(year_int) ==
            IF is_valid_automotive_year(year_int) THEN Some(year_int)
            ELSE None
        Converted(parsed) ==
            IF parsed.exc = "ValueError" THEN None
            ELSE Checked(IF 0 <= parsed.value /\ parsed.value <= 99
                         THEN convert_short_year(parsed.value)
                         ELSE parsed.value)
    IN Converted(IntOf(Remove(Strip(text), "'")))

\* parse_year_range that gives up only when neither end is a valid year, and
\* otherwise takes a valid end for an invalid one
parse_year_range_either(start_text, end_text, original) ==
    LET Range(start_year, end_year) ==
            IF start_year = None /\ end_year = None THEN None
            ELSE Some(YearRange(
                     IF start_year = None THEN end_year.value
                     ELSE start_year.value,
                     IF end_year = None THEN start_year.value
                     ELSE end_year.value,
                     original, "RANGE_FULL"))
    IN Range(parse_single_year(start_text), parse_single_year(end_text))

\* parse_year_range
parse_year_range(start_text, end_text, original) ==
    LET Range(start_year, end_year, format_type) ==
            IF start_year = None \/ end_year = None THEN None
            ELSE Some(YearRange(start_year.value, end_year.value, original,
                                format_type))
    IN Range(parse_single_year(start_text), parse_single_year(end_text),
             IF Len(Remove(start_text, "'")) = 2
                /\ Len(Remove(end_text, "'")) = 2
             THEN "RANGE_SHORT"
             ELSE IF Len(Remove(start_text, "'")) = 2 /\ Len(end_text) = 4
             THEN "RANGE_MIXED"
             ELSE "RANGE_FULL")

\* the loop of parse_year_list over the parts
RECURSIVE ParseParts(_)
ParseParts(parts) ==
    LET Parsed(part, year) ==
            IF part = << >> \/ year = None THEN << >>
            ELSE << YearRange(year.value, year.value, part,
                              IF Len(Remove(part, "'")) = 4
                              THEN "FULL_YEAR" ELSE "SHORT_YEAR") >>
    IN IF parts = << >> THEN << >>
       ELSE Parsed(Head(parts), parse_single_year(Head(parts)))
            \o ParseParts(Tail(parts))

\* parse_year_list
parse_year_list(text) ==
    LET split == Split(text, ",")
    IN ParseParts([i \in 1..Len(split) |-> Strip(split[i])])

\* detect_year_format with range_mixed tried before range_full
detect_year_format_mixed_first(text) ==
    LET stripped == Strip(text)
    IN IF SearchFrom("range_mixed", stripped, 1).found THEN "RANGE_MIXED"
       ELSE IF SearchFrom("range_full", stripped, 1).found THEN "RANGE_FULL"
       ELSE IF SearchFrom("range_short", stripped, 1).found THEN "RANGE_SHORT"
       ELSE IF SearchFrom("list_comma", stripped, 1).found THEN "LIST_MIXED"
       ELSE IF SearchFrom("full_single", stripped, 1).found THEN "FULL_YEAR"
       ELSE IF SearchFrom("short_single", stripped, 1).found THEN "SHORT_YEAR"
       ELSE "INVALID"

\* detect_year_format
detect_year_format(text) ==
    LET stripped == Strip(text)
    IN IF SearchFrom("range_full", stripped, 1).found THEN "RANGE_FULL"
       ELSE IF SearchFrom("range_mixed", stripped, 1).found THEN "RANGE_MIXED"
       ELSE IF SearchFrom("range_short", stripped, 1).found THEN "RANGE_SHORT"
       ELSE IF SearchFrom("list_comma", stripped, 1).found THEN "LIST_MIXED"
       ELSE IF SearchFrom("full_single", stripped, 1).found THEN "FULL_YEAR"
       ELSE IF SearchFrom("short_single", stripped, 1).found THEN "SHORT_YEAR"
       ELSE "INVALID"

-----------------------------------------------------------------------------
(* YearProcessor.extract_years_from_text                                   *)

\* one YearRange per parsed year, for the matches of a single-year pattern
RECURSIVE SingleYears(_, _)
SingleYears(matches, format_type) ==
    LET Parsed(year) ==
            IF year = None THEN << >>
            ELSE << YearRange(year.value, year.value, Head(matches),
                              format_type) >>
    IN IF matches = << >> THEN << >>
       ELSE Parsed(parse_single_year(Head(matches)))
            \o SingleYears(Tail(matches), format_type)

\* the range of the first match of a range pattern, if it parses
RangeOfFirstMatch(key, text) ==
    LET Parsed(year_range) ==
            IF year_range # None THEN << year_range.value >> ELSE << >>
        Range(match) ==
            IF match.found
            THEN Parsed(parse_year_range(match.g1, match.g2,
                                         Slice(text, match.start, match.stop)))
            ELSE << >>
    IN Range(SearchFrom(key, text, 1))

\* lines 303-349: the ranges of a stripped text by its detected format
ParseByFormat(text) ==
    LET List(match) ==
            IF match.found
            THEN parse_year_list(Slice(text, match.start, match.stop))
            ELSE << >>
        Ranges(format_type) ==
            CASE format_type = "RANGE_FULL" ->
                    RangeOfFirstMatch("range_full", text)
              [] format_type = "RANGE_SHORT" ->
                    RangeOfFirstMatch("range_short", text)
              [] format_type = "RANGE_MIXED" ->
                    RangeOfFirstMatch("range_mixed", text)
              [] format_type = "LIST_MIXED" ->
                    List(SearchFrom("list_comma", text, 1))
              [] format_type \in {"FULL_YEAR", "SHORT_YEAR"} ->
                    SingleYears(
                        FindAllFrom(IF format_type = "FULL_YEAR"
                                    THEN "full_single" ELSE "short_single",
                                    text, 1),
                        format_type)
              [] OTHER -> << >>
    IN Ranges(detect_year_format(text))

\* f"{vendor_specific.lower()}_format" when vendor_specific is neither None
\* nor empty and that is a key of PATTERNS, "" otherwise
PatternKey(vendor_specific) ==
    LET name == IF vendor_specific = None THEN << >>
                ELSE LowerText(vendor_specific.value)
    IN CASE name = <<"d", "e", "p", "o">> -> "depo_format"
         [] name = <<"y", "u", "t", "o">> -> "yuto_format"
         [] name = <<"h", "u", "s", "h", "a", "n">> -> "hushan_format"
         [] OTHER -> ""

\* cache_key = f"{text}:{vendor_specific}"
YearCacheKey(text, vendor_specific) ==
    text \o << ":" >>
         \o (IF vendor_specific = None THEN <<"N", "o", "n", "e">>
             ELSE vendor_specific.value)

\* "not text" alone, without the test of text.strip()
IsEmpty(text) == text = << >>

\* not text or not text.strip()
IsBlank(text) == Strip(text) = << >>

\* extract_years_from_text(text), the call without a vendor hint:
\* what it returns and the cache it leaves
ExtractWithoutHint(text, cache) ==
    LET cache_key == YearCacheKey(text, None)
        Stored(ranges) ==
            [ret |-> ranges, cache |-> CachePut(cache, cache_key, ranges)]
    IN IF IsBlank(text) THEN [ret |-> << >>, cache |-> cache]
       ELSE IF cache_key \in DOMAIN cache
       THEN [ret |-> cache[cache_key], cache |-> cache]
       ELSE Stored(ParseByFormat(Strip(text)))

\* lines 293-296: the recursive calls on the matches of the vendor pattern,
\* which read and fill the same cache
RECURSIVE ExtractMatches(_, _, _)
ExtractMatches(matches, ranges, cache) ==
    LET Extend(sub_ranges) ==
            ExtractMatches(Tail(matches), ranges \o sub_ranges.ret,
                           sub_ranges.cache)
    IN IF matches = << >> THEN [ret |-> ranges, cache |-> cache]
       ELSE Extend(ExtractWithoutHint(Head(matches), cache))

\* variant: the ranges of the vendor pattern do not end the call, the
\* ranges of the detected format are added to them
extract_years_with_format_too(text, vendor_specific, cache) ==
    LET cache_key == YearCacheKey(text, vendor_specific)
        stripped == Strip(text)
        Stored(ranges, filled) ==
            [ret |-> ranges, cache |-> CachePut(filled, cache_key, ranges)]
        Finish(hinted, ranges) == Stored(hinted.ret \o ranges, hinted.cache)
    IN IF IsBlank(text) THEN [ret |-> << >>, cache |-> cache]
       ELSE IF cache_key \in DOMAIN cache
       THEN [ret |-> cache[cache_key], cache |-> cache]
       ELSE Finish(IF PatternKey(vendor_specific) # ""
                   THEN ExtractMatches(
                            FindAllFrom(PatternKey(vendor_specific),
                                        stripped, 1),
                            << >>, cache)
                   ELSE [ret |-> << >>, cache |-> cache],
                   ParseByFormat(stripped))

\* extract_years_from_text(text, vendor_specific): what it returns and the
\* cache it leaves
extract_years_from_text(text, vendor_specific, cache) ==
    LET cache_key == YearCacheKey(text, vendor_specific)
        stripped == Strip(text)
        Stored(ranges, filled) ==
            [ret |-> ranges, cache |-> CachePut(filled, cache_key, ranges)]
        Finish(hinted, ranges) ==
            IF hinted.ret # << >> THEN Stored(hinted.ret, hinted.cache)
            ELSE Stored(ranges, hinted.cache)
    IN IF IsBlank(text) THEN [ret |-> << >>, cache |-> cache]
       ELSE IF cache_key \in DOMAIN cache
       THEN [ret |-> cache[cache_key], cache |-> cache]
       ELSE Finish(IF PatternKey(vendor_specific) # ""
                   THEN ExtractMatches(
                            FindAllFrom(PatternKey(vendor_specific),
                                        stripped, 1),
                            << >>, cache)
                   ELSE [ret |-> << >>, cache |-> cache],
                   ParseByFormat(stripped))

\* sorted(list(years)) for a set of years: ascending, each year once
RECURSIVE Sorted(_)
Sorted(years) ==
    IF years = {} THEN << >>
    ELSE LET least == CHOOSE y \in years : \A z \in years : y <= z
         IN << least >> \o Sorted(years \ {least})

\* set(years) for a list
SetOf(years) == {years[i] : i \in 1..Len(years)}

\* expand_all_years(text, vendor_specific): what it returns, the ranges it
\* was given by extract_years_from_text and the cache it leaves
expand_all_years(text, vendor_specific, cache) ==
    LET Expanded(extracted) ==
            [ret |-> Sorted(UNION {SetOf(expand(extracted.ret[i])) :
                                      i \in 1..Len(extracted.ret)}),
             ranges |-> extracted.ret,
             cache |-> extracted.cache]
    IN Expanded(extract_years_from_text(text, vendor_specific, cache))

-----------------------------------------------------------------------------
(* YearProcessor.consolidate_ranges and validate_year_compatibility        *)

\* sorted(ranges, key=lambda r: r.start_year): a stable sort
RECURSIVE SortedByStart(_)
SortedByStart(ranges) ==
    IF ranges = << >> THEN << >>
    ELSE LET r == ranges[Len(ranges)]
             before == SortedByStart(SubSeq(ranges, 1, Len(ranges) - 1))
             n == Cardinality({i \in 1..Len(before) :
                                  before[i].start_year <= r.start_year})
         IN SubSeq(before, 1, n) \o << r >> \o SubSeq(before, n + 1, Len(before))

\* the test of line 396 without the + 1: adjacent ranges are kept apart
Overlaps(last_range, current) == current.start_year <= last_range.end_year

\* the test of line 396: current overlaps last_range or starts right after it
Touches(last_range, current) ==
    current.start_year <= last_range.end_year + 1

\* the loop of consolidate_ranges over sorted_ranges[1:]
RECURSIVE Consolidate(_, _)
Consolidate(consolidated, rest) ==
    IF rest = << >> THEN consolidated
    ELSE LET current == Head(rest)
             last_range == consolidated[Len(consolidated)]
         IN IF Touches(last_range, current)
            THEN Consolidate(
                     [consolidated EXCEPT ![Len(consolidated)] =
                         YearRange(last_range.start_year,
                                   Max(last_range.end_year, current.end_year),
                                   last_range.original_text \o <<",", " ">>
                                       \o current.original_text,
                                   "RANGE_FULL")],
                     Tail(rest))
            ELSE Consolidate(Append(consolidated, current), Tail(rest))

\* consolidate_ranges(ranges): what it returns and the list it was given, as
\* the call leaves it
consolidate_ranges(ranges) ==
    LET sorted_ranges == SortedByStart(ranges)
    IN [ret |-> IF ranges = << >> THEN << >>
                ELSE Consolidate(<< Head(sorted_ranges) >>,
                                 Tail(sorted_ranges)),
        ranges |-> ranges]

\* the ratio of line 433 with the length of the list vehicle_years
RatioOfList(compatible_years, vehicle_years) ==
    IF vehicle_years # << >>
    THEN (Cardinality(compatible_years) * Unit) \div Len(vehicle_years)
    ELSE 0

\* len(compatible_years) / len(vehicle_set) if vehicle_set else 0, as a
\* multiple of 1 / Unit
Ratio(compatible_years, vehicle_years) ==
    IF SetOf(vehicle_years) # {}
    THEN (Cardinality(compatible_years) * Unit)
             \div Cardinality(SetOf(vehicle_years))
    ELSE 0

\* validate_year_compatibility
validate_year_compatibility(vehicle_years, part_years) ==
    LET vehicle_set == SetOf(vehicle_years)
        part_set == SetOf(part_years)
        compatible_years == vehicle_set \cap part_set
        vehicle_only == vehicle_set \ part_set
        part_only == part_set \ vehicle_set
    IN [compatible_years |-> Sorted(compatible_years),
        vehicle_only_years |-> Sorted(vehicle_only),
        part_only_years |-> Sorted(part_only),
        compatibility_ratio |-> Ratio(compatible_years, vehicle_years),
        is_fully_compatible |-> Cardinality(vehicle_only) = 0,
        has_extra_coverage |-> Cardinality(part_only) > 0]

-----------------------------------------------------------------------------
(* SpecYears: one YearProcessor and the arguments of the calls made on it  *)

\* most pieces of a generated text
MaxPieces == 3
\* the generated years are the first and the MaxSpan years after it
MaxSpan == 2
\* longest list of ranges given to consolidate_ranges
MaxRanges == 3
\* longest list of years given to validate_year_compatibility
MaxYears == 2

\* the pieces texts are made of: years of four and of two digits, in and out
\* of the valid range, separators, and a word
YearPieces ==
    { <<"2", "0", "1", "0">>, <<"1", "9", "1", "5">>, <<"1", "8", "0", "0">>,
      <<"2", "0", "4", "0">>, <<"1", "0">>, <<"9", "9">> }

Pieces == YearPieces \cup { <<"-">>, <<",">>, <<" ">>, <<"'">>, <<"a", "b">> }

\* the texts of at most n pieces
RECURSIVE PieceTexts(_)
PieceTexts(n) ==
    IF n = 0 THEN { << >> }
    ELSE PieceTexts(n - 1)
         \cup { t \o p : t \in PieceTexts(n - 1), p \in Pieces }

\* the wrappers of the three vendor patterns
Wrap(wrapper, t) ==
    CASE wrapper = "plain" -> t
      [] wrapper = "brackets" -> <<"[">> \o t \o <<"]">>
      [] wrapper = "year" -> <<"y", "e", "a", "r", ":", " ">> \o t
      [] wrapper = "type" -> t \o <<" ", "t", "y", "p", "e">>

\* a wrapper with the hint of its vendor (once in capitals), without a hint
\* and with the hint of another vendor, and the hint of a vendor that has no
\* pattern
HintedWrappers ==
    { <<"brackets", Some(<<"d", "e", "p", "o">>)>>,
      <<"brackets", Some(<<"D", "E", "P", "O">>)>>,
      <<"brackets", None>>,
      <<"type", Some(<<"y", "u", "t", "o">>)>>,
      <<"year", Some(<<"h", "u", "s", "h", "a", "n">>)>>,
      <<"type", Some(<<"d", "e", "p", "o">>)>>,
      <<"plain", Some(<<"a", "c", "m", "e">>)>> }

\* the calls on a text: every text of the pieces without a hint; with a
\* hint the shorter texts and the ranges and lists of two years, wrapped; and
\* with the hint "depo" a range and a year in brackets one after the other
TextInputs ==
    LET wrapped == PieceTexts(MaxPieces - 1)
                   \cup { a \o s \o b : a \in YearPieces, b \in YearPieces,
                                         s \in { <<"-">>, <<",">> } }
    IN { [kind |-> "text", text |-> t, vendor_specific |-> None] :
             t \in PieceTexts(MaxPieces) }
       \cup { [kind |-> "text", text |-> Wrap(h[1], t),
               vendor_specific |-> h[2]] : h \in HintedWrappers, t \in wrapped }
       \cup { [kind |-> "text",
               text |-> Wrap("brackets", a \o <<"-">> \o b)
                            \o Wrap("brackets", c),
               vendor_specific |-> Some(<<"d", "e", "p", "o">>)] :
                   a \in YearPieces, b \in YearPieces, c \in YearPieces }

\* datetime.now().year when the module is imported
CurrentYears == {2026}

\* the years of the generated ranges and year lists
Years == { 2010 + k : k \in 0..MaxSpan }

\* arguments a YearRange is constructed from directly
Pairs == [start_year : Years, end_year : Years]

\* the ranges given to consolidate_ranges
InputRanges ==
    { YearRange(p.start_year, p.end_year, <<"r">>,
                IF p.start_year = p.end_year THEN "FULL_YEAR"
                ELSE "RANGE_FULL") : p \in Pairs }

\* the lists over a set, up to a length
ListsOver(S, n) == UNION { [1..k -> S] : k \in 0..n }

YearInputs ==
    TextInputs
    \cup [kind : {"pair"}, pair : Pairs]
    \cup [kind : {"ranges"}, ranges : ListsOver(InputRanges, MaxRanges)]
    \cup [kind : {"years"}, vehicle_years : ListsOver(Years, MaxYears),
          part_years : ListsOver(Years, MaxYears)]

InitYears ==
    /\ \E current_year \in CurrentYears : max_future_year = current_year + 5
    /\ year_cache = [k \in {} |-> << >>]
    /\ year_input \in YearInputs
    /\ year_last = NoCall
    /\ config = None /\ signatures = << >> /\ loaded = FALSE
    /\ detection_cache = << >> /\ last = NoCall
    /\ sig_call = None /\ sig_ret = None /\ made = None
    /\ NoIngestor

\* detect_year_format(text); it reads and changes nothing of the processor,
\* so it is only called on a new one
DetectFormatCall ==
    /\ year_input.kind = "text"
    /\ year_last = NoCall
    /\ year_last' = [op |-> "detect_year_format",
                     text |-> year_input.text,
                     outcome |-> "returned",
                     result |-> detect_year_format(year_input.text)]
    /\ UNCHANGED <<max_future_year, year_cache, year_input>>
    /\ UNCHANGED <<detector_vars, ingest_vars>>

\* extract_years_from_text(text, vendor_specific)
ExtractCall ==
    /\ year_input.kind = "text"
    /\ LET Returned(call) ==
               /\ year_cache' = call.cache
               /\ year_last' = [op |-> "extract_years_from_text",
                                text |-> year_input.text,
                                vendor_specific |-> year_input.vendor_specific,
                                outcome |-> "returned",
                                result |-> call.ret]
       IN Returned(extract_years_from_text(year_input.text,
                                           year_input.vendor_specific,
                                           year_cache))
    /\ UNCHANGED <<max_future_year, year_input>>
    /\ UNCHANGED <<detector_vars, ingest_vars>>

\* expand_all_years(text, vendor_specific)
ExpandAllCall ==
    /\ year_input.kind = "text"
    /\ LET Returned(call) ==
               /\ year_cache' = call.cache
               /\ year_last' = [op |-> "expand_all_years",
                                text |-> year_input.text,
                                vendor_specific |-> year_input.vendor_specific,
                                outcome |-> "returned",
                                ranges |-> call.ranges,
                                result |-> call.ret]
       IN Returned(expand_all_years(year_input.text,
                                    year_input.vendor_specific, year_cache))
    /\ UNCHANGED <<max_future_year, year_input>>
    /\ UNCHANGED <<detector_vars, ingest_vars>>

\* YearProcessor.clear_cache
ClearYearCache ==
    /\ year_input.kind = "text"
    /\ year_last # NoCall
    /\ year_cache' = [k \in {} |-> << >>]
    /\ year_last' = [op |-> "clear_cache"]
    /\ UNCHANGED <<max_future_year, year_input>>
    /\ UNCHANGED <<detector_vars, ingest_vars>>

\* YearRange(start_year, end_year, ...) constructed directly, and expanded
ConstructRangeCall ==
    /\ year_input.kind = "pair"
    /\ year_last = NoCall
    /\ LET range == YearRange(year_input.pair.start_year,
                              year_input.pair.end_year, <<"r">>, "RANGE_FULL")
       IN year_last' = [op |-> "YearRange", outcome |-> "returned",
                        result |-> range, expanded |-> expand(range)]
    /\ UNCHANGED <<max_future_year, year_cache, year_input>>
    /\ UNCHANGED <<detector_vars, ingest_vars>>

\* consolidate_ranges(ranges)
ConsolidateCall ==
    /\ year_input.kind = "ranges"
    /\ year_last = NoCall
    /\ LET call == consolidate_ranges(year_input.ranges)
       IN /\ year_last' = [op |-> "consolidate_ranges",
                           outcome |-> "returned", result |-> call.ret]
          /\ year_input' = [year_input EXCEPT !.ranges = call.ranges]
    /\ UNCHANGED <<max_future_year, year_cache>>
    /\ UNCHANGED <<detector_vars, ingest_vars>>

\* validate_year_compatibility(vehicle_years, part_years)
ValidateCall ==
    /\ year_input.kind = "years"
    /\ year_last = NoCall
    /\ year_last' = [op |-> "validate_year_compatibility",
                     outcome |-> "returned",
                     result |-> validate_year_compatibility(
                                    year_input.vehicle_years,
                                    year_input.part_years)]
    /\ UNCHANGED <<max_future_year, year_cache, year_input>>
    /\ UNCHANGED <<detector_vars, ingest_vars>>

NextYears ==
    \/ DetectFormatCall
    \/ ExtractCall
    \/ ExpandAllCall
    \/ ClearYearCache
    \/ ConstructRangeCall
    \/ ConsolidateCall
    \/ ValidateCall

SpecYears == InitYears /\ [][NextYears]_vars

-----------------------------------------------------------------------------
(* Properties of the year processor *)

\* the ranges extract_years_from_text returned in the last call
ReturnedRanges ==
    CASE year_last.op = "extract_years_from_text" -> year_last.result
      [] year_last.op = "expand_all_years" -> year_last.ranges
      [] OTHER -> << >>

\* the digits written in a text, and the year a run of digits writes
DigitsOf(text) == SelectSeq(text, IsDigit)

Written(digits, first, count) ==
    DecimalValue(SubSeq(digits, first, first + count - 1))

\* the century rule as the specification states it
CenturyRule(Y) == IF Y <= 29 THEN 2000 + Y ELSE 1900 + Y

\* the years of a range are those two, in ascending order
Spans(year_range, a, b) ==
    /\ year_range.start_year = Min(a, b)
    /\ year_range.end_year = Max(a, b)

\* C11: convert_short_year(Y) is 2000 + Y for Y <= 29 and 1900 + Y for the
\* other Y in 0..99, and every year that extract_years_from_text derives
\* from a token of two digits follows that rule: a single year or list
\* element (SHORT_YEAR), both ends of a RANGE_SHORT range, and the first end
\* of a RANGE_MIXED range, whose other end is the year of four digits as
\* written.
C11_CenturyRule ==
    /\ \A Y \in 0..99 : convert_short_year(Y) = CenturyRule(Y)
    /\ \A i \in 1..Len(ReturnedRanges) :
          LET r == ReturnedRanges[i]
              digits == DigitsOf(r.original_text)
          IN /\ r.format_detected = "SHORT_YEAR" =>
                   /\ Len(digits) = 2
                   /\ Spans(r, CenturyRule(Written(digits, 1, 2)),
                            CenturyRule(Written(digits, 1, 2)))
             /\ r.format_detected = "RANGE_SHORT" =>
                   /\ Len(digits) = 4
                   /\ Spans(r, CenturyRule(Written(digits, 1, 2)),
                            CenturyRule(Written(digits, 3, 2)))
             /\ r.format_detected = "RANGE_MIXED" =>
                   /\ Len(digits) = 6
                   /\ Spans(r, CenturyRule(Written(digits, 1, 2)),
                            Written(digits, 3, 4))

\* a short range with one end in each century was extracted
C11_Witness ==
    /\ year_last.op = "extract_years_from_text"
    /\ \E i \in 1..Len(year_last.result) :
          /\ year_last.result[i].format_detected = "RANGE_SHORT"
          /\ year_last.result[i].start_year = 1999
          /\ year_last.result[i].end_year = 2010

\* the first full range of the text of the last call has an end written as a
\* year out of the valid interval
FullRangeOutOfInterval ==
    LET match == SearchFrom("range_full", Strip(year_last.text), 1)
    IN /\ match.found
       /\ \/ DecimalValue(match.g1) \notin 1885..max_future_year
          \/ DecimalValue(match.g2) \notin 1885..max_future_year

\* C12: every YearRange that extract_years_from_text returns, with or
\* without a vendor hint, has start_year and end_year within 1885 and the
\* current year + 5 (max_future_year), both included.  A year of four digits
\* is returned as it is written, never moved to a limit: a FULL_YEAR range is
\* the year in its original_text, a RANGE_FULL range spans the two years
\* written, and a text whose full range has an end out of the interval gives
\* no range at all.
C12_ValidInterval ==
    /\ \A i \in 1..Len(ReturnedRanges) :
          LET r == ReturnedRanges[i]
              digits == DigitsOf(r.original_text)
          IN /\ 1885 <= r.start_year
             /\ r.start_year <= r.end_year
             /\ r.end_year <= max_future_year
             /\ r.format_detected = "FULL_YEAR" =>
                   Spans(r, Written(digits, 1, 4), Written(digits, 1, 4))
             /\ r.format_detected = "RANGE_FULL" =>
                   Spans(r, Written(digits, 1, 4), Written(digits, 5, 4))
    /\ (/\ year_last.op = "extract_years_from_text"
        /\ year_last.vendor_specific = None
        /\ FullRangeOutOfInterval)
       => year_last.result = << >>

\* a text with the full range of a valid and a too late year was parsed
C12_Witness ==
    /\ year_last.op = "extract_years_from_text"
    /\ year_last.vendor_specific = None
    /\ FullRangeOutOfInterval
    /\ \E i \in 1..Len(year_last.text) :
          FullYearAt(year_last.text, i)
          /\ DecimalValue(Slice(year_last.text, i, i + 4)) = 2010

\* the only digits of a text are one run of four that writes a year out of
\* the valid interval
OnlyYearOutOfInterval(text) ==
    /\ Len(DigitsOf(text)) = 4
    /\ \E i \in 1..Len(text) : \A k \in 0..3 : IsDigit(At(text, i + k))
    /\ DecimalValue(DigitsOf(text)) \notin 1885..max_future_year

\* C13: for a text whose only numeric token is a year of four digits out of
\* 1885 .. current year + 5 (such as 1800 or 2150), extract_years_from_text
\* returns the empty list.
C13_OutOfRangeExcluded ==
    (/\ year_last.op = "extract_years_from_text"
     /\ OnlyYearOutOfInterval(year_last.text))
    => year_last.result = << >>

\* the pattern of a range format
RangePattern(format_type) ==
    CASE format_type = "RANGE_FULL" -> "range_full"
      [] format_type = "RANGE_MIXED" -> "range_mixed"
      [] format_type = "RANGE_SHORT" -> "range_short"

\* the year a captured end of a range stands for: the century rule for two
\* digits, the year as written for four
EndYear(digits) ==
    IF Len(digits) = 2 THEN CenturyRule(DecimalValue(digits))
    ELSE DecimalValue(digits)

\* the last call was extract_years_from_text without a vendor hint, on a
\* text that is not blank
ExtractedWithoutHint ==
    /\ year_last.op = "extract_years_from_text"
    /\ year_last.vendor_specific = None
    /\ Strip(year_last.text) # << >>

\* C14: when the detected format of a text is RANGE_FULL, RANGE_MIXED or
\* RANGE_SHORT, extract_years_from_text without a vendor hint returns exactly
\* one YearRange, spanning the years of the two ends captured by the first
\* match of that format's pattern (ends of two digits converted by the
\* century rule) and with that format as format_detected; or the empty list
\* when one of the two years is not valid.
C14_RangeFormats ==
    ExtractedWithoutHint =>
        LET text == Strip(year_last.text)
            format_type == detect_year_format(text)
            match == SearchFrom(RangePattern(format_type), text, 1)
            a == EndYear(match.g1)
            b == EndYear(match.g2)
        IN format_type \in {"RANGE_FULL", "RANGE_MIXED", "RANGE_SHORT"} =>
              /\ match.found
              /\ IF a \in 1885..max_future_year /\ b \in 1885..max_future_year
                 THEN /\ Len(year_last.result) = 1
                      /\ Spans(year_last.result[1], a, b)
                      /\ year_last.result[1].format_detected = format_type
                 ELSE year_last.result = << >>

\* a mixed range, its first end the later year, was parsed
C14_Witness ==
    /\ ExtractedWithoutHint
    /\ detect_year_format(year_last.text) = "RANGE_MIXED"
    /\ Len(year_last.result) = 1
    /\ year_last.result[1].format_detected = "RANGE_MIXED"
    /\ year_last.result[1].start_year = 1915
    /\ year_last.result[1].end_year = 2010

\* C15: extract_years_from_text always returns, never raises.  For an empty
\* or blank text it returns the empty list and leaves the parse cache as it
\* was (nothing is ever stored for such a text); for a text in which no year
\* pattern matches (its format is INVALID and no vendor pattern is asked for)
\* it returns the empty list as well.
C15_NeverRaises ==
    /\ year_last.op \in {"extract_years_from_text", "expand_all_years"} =>
          year_last.outcome = "returned"
    /\ (year_input.kind = "text" /\ Strip(year_input.text) = << >>) =>
          /\ DOMAIN year_cache = {}
          /\ year_last.op = "extract_years_from_text" =>
                year_last.result = << >>
    /\ (/\ year_last.op = "extract_years_from_text"
        /\ year_last.vendor_specific = None
        /\ detect_year_format(year_last.text) = "INVALID") =>
          year_last.result = << >>

\* extract_years_from_text returned for a text of nothing but blanks
C15_Witness ==
    /\ year_last.op = "extract_years_from_text"
    /\ year_last.text # << >>
    /\ Strip(year_last.text) = << >>
    /\ year_last.outcome = "returned"

\* the formats in the order of their precedence, each with its pattern
FormatOrder ==
    << <<"RANGE_FULL", "range_full">>, <<"RANGE_MIXED", "range_mixed">>,
       <<"RANGE_SHORT", "range_short">>, <<"LIST_MIXED", "list_comma">>,
       <<"FULL_YEAR", "full_single">>, <<"SHORT_YEAR", "short_single">> >>

\* the pattern of the k-th format matches somewhere in the stripped text
MatchesFormat(k, text) == SearchFrom(FormatOrder[k][2], Strip(text), 1).found

\* C16: detect_year_format returns the first of RANGE_FULL, RANGE_MIXED,
\* RANGE_SHORT, LIST_MIXED, FULL_YEAR, SHORT_YEAR whose pattern matches
\* somewhere in the stripped text, and INVALID when none of them matches.
C16_FormatPrecedence ==
    year_last.op = "detect_year_format" =>
        LET matching == {k \in 1..Len(FormatOrder) :
                            MatchesFormat(k, year_last.text)}
        IN IF matching = {} THEN year_last.result = "INVALID"
           ELSE \E k \in matching :
                   /\ \A j \in matching : k <= j
                   /\ year_last.result = FormatOrder[k][1]

\* a text with a full range, in which the mixed range pattern matches too,
\* was classified RANGE_FULL
C16_Witness ==
    /\ year_last.op = "detect_year_format"
    /\ MatchesFormat(1, year_last.text)
    /\ MatchesFormat(2, year_last.text)
    /\ year_last.result = "RANGE_FULL"

\* the text is written as a range: digits, one range separator, digits
IsWrittenRange(text) ==
    \E i \in 2..(Len(text) - 1) :
        /\ IsRangeSeparator(text[i])
        /\ \A j \in (1..Len(text)) \ {i} : IsDigit(text[j])

\* the two ends of a written range, and the range written the other way round
FirstEnd(text) ==
    LET i == CHOOSE i \in 1..Len(text) : IsRangeSeparator(text[i])
    IN SubSeq(text, 1, i - 1)

SecondEnd(text) ==
    LET i == CHOOSE i \in 1..Len(text) : IsRangeSeparator(text[i])
    IN SubSeq(text, i + 1, Len(text))

Reversed(text) ==
    SecondEnd(text) \o << text[Len(FirstEnd(text)) + 1] >> \o FirstEnd(text)

\* the years of a list of ranges
YearsOf(ranges) ==
    [i \in 1..Len(ranges) |-> << ranges[i].start_year, ranges[i].end_year >>]

\* what extract_years_from_text returns for a text on a new processor
ExtractedFrom(text) ==
    YearsOf(extract_years_from_text(text, None, [k \in {} |-> << >>]).ret)

\* an end written with four digits as a year of the 1900s or 2000s, or with
\* two digits
IsFullEnd(digits) ==
    /\ Len(digits) = 4
    /\ << digits[1], digits[2] >> \in { <<"1", "9">>, <<"2", "0">> }

IsShortEnd(digits) == Len(digits) = 2

\* start_year = min(a, b) and end_year = max(a, b) for the range constructed
\* from (a, b) directly, and start_year <= end_year for every range that the
\* parser or consolidate_ranges returned
StartNotAfterEnd ==
    /\ year_last.op = "YearRange" =>
          Spans(year_last.result, year_input.pair.start_year,
                year_input.pair.end_year)
    /\ \A i \in 1..Len(ReturnedRanges) :
          ReturnedRanges[i].start_year <= ReturnedRanges[i].end_year
    /\ year_last.op = "consolidate_ranges" =>
          \A i \in 1..Len(year_last.result) :
              year_last.result[i].start_year <= year_last.result[i].end_year

\* C17 as stated: start_year = min(a, b) and end_year = max(a, b) for every
\* YearRange, and a textual range written in reverse order yields the same
\* range as the forward one.
C17_ReversedTextSameRange ==
    /\ StartNotAfterEnd
    /\ (ExtractedWithoutHint /\ IsWrittenRange(year_last.text)) =>
          YearsOf(year_last.result) = ExtractedFrom(Reversed(year_last.text))

\* C17, amended: start_year = min(a, b) and end_year = max(a, b) for every
\* YearRange constructed from a pair (a, b), so start_year <= end_year for
\* every range returned; a textual range yields the same range when written
\* in reverse order if both of its ends are written with four digits (19xx or
\* 20xx) or both with two digits.
C17_OrderedRanges ==
    /\ StartNotAfterEnd
    /\ (/\ ExtractedWithoutHint
        /\ IsWrittenRange(year_last.text)
        /\ \/ IsFullEnd(FirstEnd(year_last.text))
              /\ IsFullEnd(SecondEnd(year_last.text))
           \/ IsShortEnd(FirstEnd(year_last.text))
              /\ IsShortEnd(SecondEnd(year_last.text))) =>
          YearsOf(year_last.result) = ExtractedFrom(Reversed(year_last.text))

\* a range written with the later year first was returned with its years
\* swapped
C17_Witness ==
    /\ ExtractedWithoutHint
    /\ IsWrittenRange(year_last.text)
    /\ IsFullEnd(FirstEnd(year_last.text))
    /\ IsFullEnd(SecondEnd(year_last.text))
    /\ DecimalValue(FirstEnd(year_last.text))
           > DecimalValue(SecondEnd(year_last.text))
    /\ Len(year_last.result) = 1
    /\ year_last.result[1].start_year = DecimalValue(SecondEnd(year_last.text))
    /\ year_last.result[1].end_year = DecimalValue(FirstEnd(year_last.text))

\* the years a..b of a range, as a set
Covered(year_range) == year_range.start_year .. year_range.end_year

\* a list of years in strictly ascending order
StrictlyAscending(years) ==
    \A i \in 1..(Len(years) - 1) : years[i] < years[i + 1]

\* C18: expand() of a YearRange (a, b) is the list a, a + 1, ..., b of length
\* b - a + 1; expand_all_years(text, hint) returns, in strictly ascending
\* order and so without duplicates, exactly the years covered by the ranges
\* that extract_years_from_text(text, hint) returns (the empty list when
\* there is none).
C18_Expansion ==
    /\ year_last.op = "YearRange" =>
          LET a == year_last.result.start_year
              b == year_last.result.end_year
          IN /\ Len(year_last.expanded) = b - a + 1
             /\ \A i \in 1..(b - a + 1) : year_last.expanded[i] = a + i - 1
    /\ year_last.op = "expand_all_years" =>
          /\ YearsOf(year_last.ranges)
                = YearsOf(extract_years_from_text(
                              year_last.text, year_last.vendor_specific,
                              [k \in {} |-> << >>]).ret)
          /\ StrictlyAscending(year_last.result)
          /\ SetOf(year_last.result)
                = UNION {Covered(year_last.ranges[i]) :
                            i \in 1..Len(year_last.ranges)}

\* expand_all_years returned the years of a range of several years once each,
\* although a second range found in the text covers one of them again
C18_Witness ==
    /\ year_last.op = "expand_all_years"
    /\ \E i, j \in 1..Len(year_last.ranges) :
          /\ i # j
          /\ Covered(year_last.ranges[i]) \cap Covered(year_last.ranges[j])
                # {}
          /\ Cardinality(Covered(year_last.ranges[i])) > 1
    /\ Len(year_last.result) > 1

\* the years covered by the ranges of a list
CoveredBy(ranges) == UNION {Covered(ranges[i]) : i \in 1..Len(ranges)}

\* C19: consolidate_ranges returns the minimal covering set of its input,
\* whatever the order of the input: the ranges returned are sorted by start
\* year, cover exactly the years that the input ranges cover, and each is
\* separated from the next by at least one year that is not covered; the
\* input list is left as it was.
C19_MinimalCover ==
    [][year_last'.op = "consolidate_ranges" =>
          /\ CoveredBy(year_last'.result) = CoveredBy(year_input.ranges)
          /\ \A i \in 1..(Len(year_last'.result) - 1) :
                /\ year_last'.result[i].start_year
                      <= year_last'.result[i + 1].start_year
                /\ year_last'.result[i].end_year + 1
                      < year_last'.result[i + 1].start_year
          /\ year_input' = year_input]_vars

\* two ranges, given with the later one first and the earlier one ending the
\* year before the later one starts, were merged into a single range
C19_Witness ==
    /\ year_last.op = "consolidate_ranges"
    /\ Len(year_input.ranges) = 2
    /\ year_input.ranges[2].end_year + 1 = year_input.ranges[1].start_year
    /\ Len(year_last.result) = 1
    /\ year_last.result[1].start_year = year_input.ranges[2].start_year
    /\ year_last.result[1].end_year = year_input.ranges[1].end_year

\* C20: with V and P the sets of vehicle_years and part_years,
\* validate_year_compatibility reports the years of V /\ P as compatible, those
\* of V \ P as vehicle-only and those of P \ V as part-only, each list sorted
\* ascending, the compatibility ratio |V /\ P| / |V| (0 when V is empty), and
\* is_fully_compatible exactly when there is no vehicle-only year.
C20_Compatibility ==
    year_last.op = "validate_year_compatibility" =>
        LET V == SetOf(year_input.vehicle_years)
            P == SetOf(year_input.part_years)
            report == year_last.result
        IN /\ StrictlyAscending(report.compatible_years)
           /\ StrictlyAscending(report.vehicle_only_years)
           /\ StrictlyAscending(report.part_only_years)
           /\ SetOf(report.compatible_years) = V \cap P
           /\ SetOf(report.vehicle_only_years) = V \ P
           /\ SetOf(report.part_only_years) = P \ V
           /\ report.compatibility_ratio * Cardinality(V)
                 = Cardinality(V \cap P) * Unit
           /\ V = {} => report.compatibility_ratio = 0
           /\ report.is_fully_compatible <=> (V \ P = {})

\* a vehicle year given twice and covered by the part: the ratio is 1 and the
\* part is fully compatible
C20_Witness ==
    /\ year_last.op = "validate_year_compatibility"
    /\ Len(year_input.vehicle_years)
          > Cardinality(SetOf(year_input.vehicle_years))
    /\ year_last.result.compatibility_ratio = Unit
    /\ year_last.result.is_fully_compatible
    /\ year_last.result.part_only_years # << >>

-----------------------------------------------------------------------------
(* The detection cache under force_refresh, other keys and clear_cache *)

\* C21: a detect_vendor call with force_refresh=True runs the status check
\* and, for a VALID document, text extraction (and scoring when text came
\* out), returns, and leaves its result as the cache entry of its key
C21_ForceRefreshOverwrites ==
    (Detected /\ last.force_refresh) =>
        /\ (last.status = "valid" => last.extracted)
        /\ (last.status = "valid" /\ last.page_texts # << >> => last.scored)
        /\ last.outcome = "returned"
        /\ last.key \in DOMAIN detection_cache
        /\ detection_cache[last.key] = last.result

\* C22: a step keeps every cache entry unless it is clear_cache or a
\* detect_vendor call with force_refresh=True for the key of that entry,
\* and a detect_vendor call writes no entry but that of its own key
C22_CacheFrame ==
    [][/\ \A k \in DOMAIN detection_cache :
             (k \in DOMAIN detection_cache'
                 /\ detection_cache'[k] = detection_cache[k])
             \/ last'.op = "clear_cache"
             \/ (/\ last'.op = "detect_vendor"
                 /\ last'.force_refresh /\ last'.key = k)
       /\ last'.op = "detect_vendor" =>
             \A k \in DOMAIN detection_cache' :
                 k # last'.key =>
                     /\ k \in DOMAIN detection_cache
                     /\ detection_cache'[k] = detection_cache[k]]_vars

\* some result is held in the detection cache
C22_SomeEntryCached == DOMAIN detection_cache # {}

-----------------------------------------------------------------------------
(* Unknown vendor names in the configuration *)

\* the configuration entries whose vendor name is in VendorType
KnownEntries ==
    {i \in 1..Len(config.vendors) :
        Lower(config.vendors[i].name) \in VendorType}

\* the i-th entry is the last one of the configuration for its vendor
LastForVendor(i) ==
    \A j \in KnownEntries :
        Lower(config.vendors[j].name) = Lower(config.vendors[i].name)
            => j <= i

\* C23: when a configuration holds vendor names outside VendorType and no
\* entry of a known vendor is malformed, the load completes and the store
\* holds the signatures of every known vendor entry, whether it stands
\* before or after an unknown name, and no other vendor
C23_UnknownVendorSkipped ==
    (/\ loaded /\ ~ LoadFailed
     /\ KnownEntries # 1..Len(config.vendors)
     /\ KnownEntries # {})
    => (/\ \A i \in KnownEntries :
              LastForVendor(i) =>
                  \E k \in 1..Len(signatures) :
                      /\ signatures[k].vendor = Lower(config.vendors[i].name)
                      /\ signatures[k].sigs = config.vendors[i].data.signatures
        /\ \A k \in 1..Len(signatures) :
              \E i \in KnownEntries :
                  signatures[k].vendor = Lower(config.vendors[i].name))

\* C23 witness: an unknown vendor name stands between two entries of known
\* vendors, and both of them are in the store with their signatures
C23_Witness ==
    /\ loaded /\ ~ config.raises /\ Len(config.vendors) = 3
    /\ config.vendors[1].name = "DEPO"
    /\ config.vendors[2].name = "acme"
    /\ config.vendors[3].name = "yuto"
    /\ config.vendors[1].data.signatures = << ConfigSignatureA >>
    /\ config.vendors[3].data.signatures
           = << ConfigSignatureA, ConfigSignatureB >>
    /\ signatures =
           << [vendor |-> "depo", sigs |-> << ConfigSignatureA >>],
              [vendor |-> "yuto",
               sigs |-> << ConfigSignatureA, ConfigSignatureB >>] >>

-----------------------------------------------------------------------------
(* The exclusion penalty *)

\* the call scored a single qualifying signature of positive weight in
\* which at least one exclusion pattern matches
SingleExcludedCall ==
    /\ sig_ret # None
    /\ Len(sig_call.signatures) = 1
    /\ AllRequiredMatch(1)
    /\ Matched(sig_call.signatures[1].exclusion_patterns) >= 1
    /\ sig_call.signatures[1].weight > 0

\* the penalty factor of the claim, in tenths
PenaltyTenths(n) ==
    CASE n = 1 -> 7
      [] n = 2 -> 4
      [] n >= 3 -> 1

\* C24: a qualifying signature in which n >= 1 exclusion patterns have a
\* match scores (0.6 + 0.3 * m / k) * f * weight with f = 0.7 for n = 1,
\* 0.4 for n = 2 and 0.1 for n >= 3, n counting patterns and not matches;
\* with a positive weight the score stays above 0
C24_ExclusionPenalty ==
    SingleExcludedCall =>
        LET sig == sig_call.signatures[1]
            k == Len(sig.optional_patterns)
            m == Matched(sig.optional_patterns)
            f == PenaltyTenths(Matched(sig.exclusion_patterns))
        IN /\ k = 0 =>
                 sig_ret.total_score = 6 * (Unit \div 1000) * f * sig.weight
           /\ k > 0 =>
                 sig_ret.total_score
                     = (6 * k + 3 * m) * (Unit \div (1000 * k)) * f * sig.weight
           /\ sig_ret.total_score > 0
           /\ sig_ret.matched_signatures = << 0 >>

\* C24 witness: a signature with four exclusion patterns, all matching a
\* text in which each of them has two matches, was scored with the factor
\* 0.1: 0.6 * 0.1 * 1.5 = 0.09
C24_Witness ==
    /\ SingleExcludedCall
    /\ sig_call.full_text
         = << "Made in Taiwan", "DEPO A12-3456-AB", "Made in Taiwan" >>
    /\ sig_call.signatures[1].required_patterns = << "DEPO" >>
    /\ sig_call.signatures[1].optional_patterns = << >>
    /\ Matched(sig_call.signatures[1].exclusion_patterns) = 4
    /\ sig_call.signatures[1].weight = 15
    /\ sig_ret.total_score = 9 * (Unit \div 100)

-----------------------------------------------------------------------------
(* Vendor totals and the choice among vendors *)

RECURSIVE SumOfScores(_, _, _)
\* the scores of the qualifying signatures among sigs[1..n], added up
SumOfScores(sigs, text, n) ==
    IF n = 0 THEN 0
    ELSE SumOfScores(sigs, text, n - 1)
         + (IF Qualifies(sigs[n], text) /\ SigScore(sigs[n], text) > 0
            THEN SigScore(sigs[n], text) ELSE 0)

\* the sum for the i-th store entry on the text extracted by the last call
SumFor(i) ==
    SumOfScores(signatures[i].sigs, FullText(last.page_texts),
                Len(signatures[i].sigs))

\* C25: on an extracted text some vendor scores on, the best match computed
\* by _perform_detection is a vendor whose plain sum of qualifying signature
\* scores, neither averaged nor capped, is the largest, and its confidence
\* is that sum clamped to 1.0
C25_PlainSum ==
    (DetectedText /\ \E i \in Scorable : SumFor(i) > 0) =>
        LET Chosen(best) ==
                \E i \in Scorable :
                    /\ signatures[i].vendor = best.vendor
                    /\ \A j \in Scorable : SumFor(j) <= SumFor(i)
                    /\ best.confidence
                         = (IF SumFor(i) < Unit THEN SumFor(i) ELSE Unit)
        IN Chosen(BestMatch(signatures, FullText(last.page_texts)))

\* C25 witness: on a text with DEPO and Taiwan, a vendor with two signatures
\* of 0.9 each (1.8 in all) is the best match, with confidence 1.0, over an
\* earlier vendor whose single signature scores 1.35
C25_Witness ==
    /\ DetectedText
    /\ last.page_texts = << "DEPO A12-3456-AB", "Made in Taiwan" >>
    /\ Len(signatures) = 5
    /\ signatures[3].vendor = "yuto" /\ Len(signatures[3].sigs) = 1
    /\ signatures[4].vendor = "depo" /\ Len(signatures[4].sigs) = 2
    /\ SumFor(3) = 135 * (Unit \div 100)
    /\ SumFor(4) = 180 * (Unit \div 100)
    /\ BestMatch(signatures, FullText(last.page_texts)).vendor = "depo"
    /\ BestMatch(signatures, FullText(last.page_texts)).confidence = Unit


\* two or more vendors share the largest total, which is positive
TiedAtMaximum ==
    \E i, j \in Scorable :
        /\ i # j /\ SumFor(i) = SumFor(j) /\ SumFor(i) > 0
        /\ \A k \in Scorable : SumFor(k) <= SumFor(i)

\* C29: when two or more vendors share the maximum positive total score,
\* detect_vendor returns the first of them in the order of the signature
\* store
C29_FirstOnTies ==
    (DetectedText /\ TiedAtMaximum) =>
        /\ last.outcome = "returned"
        /\ \E i \in Scorable :
              /\ signatures[i].vendor = last.result.vendor
              /\ \A k \in Scorable : SumFor(k) <= SumFor(i)
              /\ \A k \in Scorable : k < i => SumFor(k) < SumFor(i)

\* a detect_vendor call met a tie at the maximum positive total
C29_TieMet == DetectedText /\ TiedAtMaximum

-----------------------------------------------------------------------------
(* The vendor pattern and the cache of extract_years_from_text *)

RECURSIVE InnerRanges(_)
\* the ranges of the captured contents, each parsed by its detected format
\* with no vendor hint, one list after the other
InnerRanges(matches) ==
    IF matches = << >> THEN << >>
    ELSE (IF Strip(Head(matches)) = << >> THEN << >>
          ELSE ParseByFormat(Strip(Head(matches))))
         \o InnerRanges(Tail(matches))

\* C26: with a vendor hint that has a wrapper pattern (whatever the case of
\* its letters), extract_years_from_text returns the ranges parsed without
\* a hint from the captured content of every match of that pattern when
\* there are any, and nothing of the detected format of the full text;
\* when there are none, or with no hint or a hint without a pattern, it
\* returns what the detected format of the full text gives
C26_VendorWrapper ==
    year_last.op = "extract_years_from_text" =>
        LET text == Strip(year_last.text)
            key == PatternKey(year_last.vendor_specific)
            Expected(inner) ==
                IF inner # << >> THEN inner ELSE ParseByFormat(text)
        IN year_last.result
             = (IF text = << >> THEN << >>
                ELSE Expected(IF key = "" THEN << >>
                              ELSE InnerRanges(FindAllFrom(key, text, 1))))

\* C26 witness: with the hint "depo", "[1915-2010][10]" gave the range and
\* the year of its two brackets, where the detected format of the full text
\* gives the range alone
C26_Witness ==
    /\ year_last.op = "extract_years_from_text"
    /\ year_last.vendor_specific = Some(<<"d", "e", "p", "o">>)
    /\ year_last.text = <<"[", "1", "9", "1", "5", "-", "2", "0", "1", "0",
                          "]", "[", "1", "0", "]">>
    /\ YearsOf(year_last.result) = << <<1915, 2010>>, <<2010, 2010>> >>
    /\ YearsOf(ParseByFormat(year_last.text)) = << <<1915, 2010>> >>

-----------------------------------------------------------------------------
(* SpecYearCache: calls with changing arguments on one YearProcessor *)

\* the (text, vendor_specific) pairs of the calls: a year with no hint, with
\* the hint "depo" and in brackets, a blank text, and two pairs that differ
\* in where a colon stands
CachePairs ==
    { [kind |-> "text", text |-> <<"2", "0", "1", "0">>,
       vendor_specific |-> None],
      [kind |-> "text", text |-> <<"2", "0", "1", "0">>,
       vendor_specific |-> Some(<<"d", "e", "p", "o">>)],
      [kind |-> "text", text |-> <<"[", "2", "0", "1", "0", "]">>,
       vendor_specific |-> Some(<<"d", "e", "p", "o">>)],
      [kind |-> "text", text |-> <<"[", "2", "0", "1", "0", "]">>,
       vendor_specific |-> None],
      [kind |-> "text", text |-> <<" ">>, vendor_specific |-> None],
      [kind |-> "text",
       text |-> <<"2", "0", "1", "0", ":", "2", "0", "1", "2">>,
       vendor_specific |-> Some(<<"x">>)],
      [kind |-> "text", text |-> <<"2", "0", "1", "0">>,
       vendor_specific |-> Some(<<"2", "0", "1", "2", ":", "x">>)] }

InitYearCache ==
    /\ \E current_year \in CurrentYears : max_future_year = current_year + 5
    /\ year_cache = [k \in {} |-> << >>]
    /\ year_input = [kind |-> "calls"]
    /\ year_last = NoCall
    /\ config = None /\ signatures = << >> /\ loaded = FALSE
    /\ detection_cache = << >> /\ last = NoCall
    /\ sig_call = None /\ sig_ret = None /\ made = None
    /\ NoIngestor

\* extract_years_from_text(text, vendor_specific) with the arguments of this
\* call, which year_input keeps
ExtractPairCall ==
    /\ year_input.kind \in {"calls", "text"}
    /\ \E pair \in CachePairs :
          LET Returned(call) ==
                  /\ year_cache' = call.cache
                  /\ year_input' = pair
                  /\ year_last' = [op |-> "extract_years_from_text",
                                   text |-> pair.text,
                                   vendor_specific |-> pair.vendor_specific,
                                   outcome |-> "returned",
                                   result |-> call.ret]
          IN Returned(extract_years_from_text(pair.text, pair.vendor_specific,
                                              year_cache))
    /\ UNCHANGED max_future_year
    /\ UNCHANGED <<detector_vars, ingest_vars>>

NextYearCache ==
    \/ ExtractPairCall
    \/ ClearYearCache

SpecYearCache == InitYearCache /\ [][NextYearCache]_vars

\* C27: whatever calls of extract_years_from_text and clear_cache came
\* before on the processor, extract_years_from_text(text, hint) returns the
\* ranges a new processor returns for that text and hint
C27_CacheTransparent ==
    year_last.op = "extract_years_from_text" =>
        LET Same(fresh) == year_last.result = fresh.ret
        IN Same(extract_years_from_text(year_last.text,
                                        year_last.vendor_specific,
                                        [k \in {} |-> << >>]))

\* a call was answered from the cache
C27_CacheHit ==
    /\ year_last.op = "extract_years_from_text"
    /\ year_last.result # << >>
    /\ YearCacheKey(year_last.text, year_last.vendor_specific)
           \in DOMAIN year_cache

-----------------------------------------------------------------------------
(* ingest.py: PDFMetadata.to_dict and from_dict                            *)
(*                                                                         *)
(* A field value that changes its type between a PDFMetadata and its dict  *)
(* is a record of the type and the value; the fields kept are file_path,   *)
(* file_size, modified_time, library_used and status (creation_date,       *)
(* modification_date and ingested_at are converted in the same loop as     *)
(* modified_time).  Times are in ticks, TicksPerSecond to the second.      *)

\* to_dict: a new dict with the path and the datetime as str and the enums
\* as their values
ToDict(metadata) ==
    [file_path |-> [type |-> "str", value |-> metadata.file_path.value],
     file_size |-> metadata.file_size,
     modified_time |->
         [type |-> "str", value |-> metadata.modified_time.value],
     library_used |->
         IF metadata.library_used = None THEN None
         ELSE [type |-> "str", value |-> metadata.library_used.value],
     status |-> [type |-> "str", value |-> metadata.status.value]]

\* from_dict(data): the conversions are assigned to the keys of data
\* itself, so data is changed for the caller as well; Path() takes a str or
\* a Path, the enums take a value or a member, and datetime.fromisoformat
\* raises TypeError for anything but a str, with file_path converted already
FromDict(data) ==
    IF data.modified_time.type # "str"
    THEN [exc |-> "TypeError",
          data |-> [data EXCEPT !.file_path.type = "Path"]]
    ELSE LET Built(converted) ==
                 [exc |-> "", value |-> converted, data |-> converted]
         IN Built([data EXCEPT
                      !.file_path.type = "Path",
                      !.modified_time.type = "datetime",
                      !.library_used =
                          IF data.library_used = None THEN None
                          ELSE [type |-> "PDFLibrary",
                                value |-> data.library_used.value],
                      !.status.type = "PDFStatus"])

-----------------------------------------------------------------------------
(* PDFReader.extract_metadata and PDFIngestor *)

\* extract_metadata(file_path) for a file that is missing (stat = None) or
\* has this size and modification time, the library finding it of this
\* status, at the time now
ExtractMetadata(file_path, stat, status, now) ==
    IF stat = None
    THEN [file_path |-> [type |-> "Path", value |-> file_path],
          file_size |-> 0,
          modified_time |-> [type |-> "datetime", value |-> now],
          library_used |-> None,
          status |-> [type |-> "PDFStatus", value |-> "not_found"]]
    ELSE [file_path |-> [type |-> "Path", value |-> file_path],
          file_size |-> stat.size,
          modified_time |-> [type |-> "datetime", value |-> stat.mtime],
          library_used |-> [type |-> "PDFLibrary", value |-> "pymupdf"],
          status |-> [type |-> "PDFStatus", value |-> status]]

\* _is_cached_valid(file_path): stat() of a missing file and fromisoformat
\* of a value that is not a str raise inside the try block, which gives False
IsCachedValid(cache, file_path, stat) ==
    IF file_path \notin DOMAIN cache THEN FALSE
    ELSE IF stat = None THEN FALSE
    ELSE IF cache[file_path].modified_time.type # "str" THEN FALSE
    ELSE /\ stat.size = cache[file_path].file_size
         /\ stat.mtime - cache[file_path].modified_time.value < TicksPerSecond
         /\ cache[file_path].modified_time.value - stat.mtime < TicksPerSecond

\* ingest_single_pdf(file_path, force_refresh): what it returns or raises,
\* whether it ran the extraction, and the cache it leaves
IngestSinglePdf(cache, file_path, force_refresh, stat, status, now) ==
    IF ~ force_refresh /\ IsCachedValid(cache, file_path, stat)
    THEN LET Served(built) ==
                 [exc |-> built.exc,
                  ret |-> IF built.exc = "" THEN built.value ELSE None,
                  extracted |-> FALSE,
                  cache |-> [cache EXCEPT ![file_path] = built.data]]
         IN Served(FromDict(cache[file_path]))
    ELSE LET Ingested(metadata) ==
                 [exc |-> "", ret |-> metadata, extracted |-> TRUE,
                  cache |-> IF metadata.status.value = "valid"
                            THEN CachePut(cache, file_path, ToDict(metadata))
                            ELSE cache]
         IN Ingested(ExtractMetadata(file_path, stat, status, now))

\* a new PDFIngestor: no cache file, or one with an entry saved earlier
InitIngest ==
    /\ ingest_cache \in
           { [k \in {} |-> None],
             [k \in {"a.pdf"} |->
                 ToDict(ExtractMetadata("a.pdf", [size |-> 1, mtime |-> 0],
                                        "valid", 0))] }
    /\ ingest_last = NoCall
    /\ config = None /\ signatures = << >> /\ loaded = FALSE
    /\ detection_cache = << >> /\ last = NoCall
    /\ sig_call = None /\ sig_ret = None /\ made = None
    /\ NoYearProcessor

\* ingest_single_pdf(file_path, force_refresh) on a file of this state
IngestSingleCall(file_path, force_refresh, stat, status) ==
    /\ LET Returned(call) ==
               /\ ingest_cache' = call.cache
               /\ ingest_last' =
                      [op |-> "ingest_single_pdf",
                       file_path |-> file_path,
                       force_refresh |-> force_refresh,
                       stat |-> stat,
                       outcome |-> IF call.exc = "" THEN "returned"
                                   ELSE "raised",
                       extracted |-> call.extracted,
                       result |-> call.ret]
       IN Returned(IngestSinglePdf(ingest_cache, file_path, force_refresh,
                                   stat, status, MaxTicks))
    /\ UNCHANGED <<detector_vars, year_vars>>

\* ingest_directory(directory, force_refresh=...) on a directory with these
\* files, all of this size and modification time: ingest_single_pdf for
\* each in turn, an exception giving a CORRUPTED result, then _save_cache,
\* where json.dump raises for a value that is no str, number or None and
\* the exception is logged
IngestDirectoryCall(files, force_refresh, stat, status) ==
    /\ LET RECURSIVE Ingest(_)
           Ingest(n) ==
               IF n = 0 THEN [cache |-> ingest_cache, statuses |-> << >>]
               ELSE LET Step(before) ==
                            LET Added(call) ==
                                    [cache |-> call.cache,
                                     statuses |->
                                         Append(before.statuses,
                                                IF call.exc = ""
                                                THEN call.ret.status.value
                                                ELSE "corrupted")]
                            IN Added(IngestSinglePdf(before.cache, files[n],
                                                     force_refresh, stat,
                                                     status, MaxTicks))
                    IN Step(Ingest(n - 1))
           Returned(done) ==
               /\ ingest_cache' = done.cache
               /\ ingest_last' =
                      [op |-> "ingest_directory",
                       force_refresh |-> force_refresh,
                       outcome |-> "returned",
                       statuses |-> done.statuses,
                       saved |-> \A k \in DOMAIN done.cache :
                                    /\ done.cache[k].file_path.type = "str"
                                    /\ done.cache[k].modified_time.type = "str"
                                    /\ done.cache[k].status.type = "str"]
       IN Returned(Ingest(Len(files)))
    /\ UNCHANGED <<detector_vars, year_vars>>

\* clear_cache(file_pattern): every entry, or the entries whose key matches
\* the pattern (here a pattern that matches one key), then _save_cache
ClearIngestCache(file_pattern) ==
    /\ ingest_last # NoCall
    /\ LET kept == IF file_pattern = None THEN {}
                   ELSE DOMAIN ingest_cache \ {file_pattern.value}
       IN /\ ingest_cache' = [k \in kept |-> ingest_cache[k]]
          /\ ingest_last' =
                 [op |-> "clear_cache",
                  cleared |-> Cardinality(DOMAIN ingest_cache \ kept),
                  saved |-> \A k \in kept :
                               /\ ingest_cache[k].file_path.type = "str"
                               /\ ingest_cache[k].modified_time.type = "str"
                               /\ ingest_cache[k].status.type = "str"]
    /\ UNCHANGED <<detector_vars, year_vars>>

NextIngest ==
    \/ \E file_path \in Paths, force_refresh \in BOOLEAN,
          stat \in {None} \cup [size : 1..MaxSize, mtime : 0..MaxTicks],
          status \in {"valid", "corrupted"} :
          IngestSingleCall(file_path, force_refresh, stat, status)
    \/ \E files \in {<<"a.pdf">>, <<"b.pdf">>, <<"a.pdf", "b.pdf">>,
                     <<"b.pdf", "a.pdf">>},
          force_refresh \in BOOLEAN,
          stat \in [size : 1..MaxSize, mtime : 0..MaxTicks],
          status \in {"valid", "corrupted"} :
          IngestDirectoryCall(files, force_refresh, stat, status)
    \/ \E file_pattern \in {None} \cup {Some(p) : p \in Paths} :
          ClearIngestCache(file_pattern)

SpecIngest == InitIngest /\ [][NextIngest]_vars

-----------------------------------------------------------------------------
(* Properties of the metadata cache *)

\* a cache entry holds nothing but what json.dump accepts: the path and the
\* modification time as str, the status and the library as their values
IsPlainDict(entry) ==
    /\ entry.file_path.type = "str"
    /\ entry.modified_time.type = "str"
    /\ entry.status.type = "str"
    /\ entry.library_used # None => entry.library_used.type = "str"

\* the file of this size and modification time is the file the entry was
\* made from: the same size, and modification times less than 1 second apart
SameFile(entry, stat) ==
    /\ stat.size = entry.file_size
    /\ stat.mtime - entry.modified_time.value < TicksPerSecond
    /\ entry.modified_time.value - stat.mtime < TicksPerSecond

\* C28: an ingest_single_pdf call without force_refresh for a path with a
\* cache entry returns the metadata of that entry without running the
\* extraction when the entry has the current size of the file and a
\* modification time less than 1 second from the current one, and runs the
\* extraction when the size differs or the times are 1 second or more apart
C28_CacheReuse ==
    [][(/\ ingest_last'.op = "ingest_single_pdf"
        /\ ~ ingest_last'.force_refresh
        /\ ingest_last'.stat # None
        /\ ingest_last'.file_path \in DOMAIN ingest_cache)
       => LET entry == ingest_cache[ingest_last'.file_path]
          IN IF SameFile(entry, ingest_last'.stat)
             THEN /\ ~ ingest_last'.extracted
                  /\ ingest_last'.outcome = "returned"
                  /\ ingest_last'.result.file_path.value
                         = entry.file_path.value
                  /\ ingest_last'.result.file_size = entry.file_size
                  /\ ingest_last'.result.modified_time.value
                         = entry.modified_time.value
                  /\ ingest_last'.result.status.value = entry.status.value
             ELSE ingest_last'.extracted]_vars

\* a call was answered from the cache
C28_CacheHit ==
    /\ ingest_last.op = "ingest_single_pdf"
    /\ ingest_last.outcome = "returned"
    /\ ~ ingest_last.extracted

\* C30: after every call each entry of the metadata cache is a plain dict
\* that json.dump accepts, and a call answered from the cache leaves the
\* entry as it was
C30_CachePlain ==
    [][/\ \A k \in DOMAIN ingest_cache' : IsPlainDict(ingest_cache'[k])
       /\ (/\ ingest_last'.op = "ingest_single_pdf"
           /\ ~ ingest_last'.extracted)
          => ingest_cache' = ingest_cache]_vars

\* _save_cache met a cache it could not write
C30_SaveFailed ==
    /\ ingest_last.op \in {"ingest_directory", "clear_cache"}
    /\ ~ ingest_last.saved

====
